---------------------------- MODULE Spec2Model ----------------------------
(***************************************************************************)
(* A model of motrix: the coordination loop of engine.cpp (engine::run,    *)
(* display_sync_progress, display_txpool, wait_for_pub, sync_mempool,      *)
(* show_system_warning), the frame splitter pub::message of pub.cpp, the   *)
(* blocking waits of zmq.cpp and the group counters of falling_text.cpp.   *)
(*                                                                         *)
(* Times are in milliseconds.  A hash is a natural number, 0 being the     *)
(* value-initialised (all zero) monero::hash.  A raw frame is a sequence   *)
(* of cells: a cell [c |-> b] is the single byte b, a cell [t |-> s] is a  *)
(* run of topic bytes without ':', a cell [json |-> v] is a JSON text      *)
(* whose value is v.  The sockets and the daemon's replies fail in the     *)
(* "fault" profile only; elsewhere the only error a call returns is the    *)
(* terminated error of the wake.                                           *)
(***************************************************************************)
EXTENDS Integers, Sequences, FiniteSets, TLC

(***************************************************************************)
(* Program constants.                                                      *)
(***************************************************************************)
max_block_hash_buffer == 50
block_display_time == 16 * 1000
big_sync_interval == 5000
target_sync_interval == 15 * 60 * 1000
no_pubs_timeout == 5 * 60 * 1000
caught_up_delay == 3 * 1000
text_size == 40
group_count == 8
text_fall_delay == 80
max_u8 == 255
U64 == 2 ^ 30
COLON == 58

full_chain_topic == << [t |-> "json-full-chain_main"] >>
minimal_chain_topic == << [t |-> "json-minimal-chain_main"] >>
minimal_txpool_topic == << [t |-> "json-minimal-txpool_add"] >>

(***************************************************************************)
(* Bounds of the model.                                                    *)
(***************************************************************************)
MaxPub == 2
MaxSteadyPub == 3
MaxCarouselPub == 2
MaxQueue == 1
MaxJumps == 1
MaxTicks == 6
MaxRawLen == 4
MaxBlocks == 52
MaxFalls == 90
MaxLags == 8
MaxFaultPub == 2
MaxQuietPub == 4
MaxQuiet == 4

(***************************************************************************)
(* Small helpers.                                                          *)
(***************************************************************************)
Last(s) == s[Len(s)]

SeqToSet(s) == { s[i] : i \in 1..Len(s) }

\* The sequences over S of length lo..hi.
SeqsOf(S, lo, hi) == UNION { [1..n -> S] : n \in lo..hi }

(***************************************************************************)
(* pub::message (pub.cpp): the split of a raw frame at its first ':'.      *)
(***************************************************************************)
Byte(b) == [c |-> b]

\* memchr: the offset (from 0) of the first cell of s equal to the byte b,
\* or -1 for the null pointer.
memchr(s, b) ==
  IF \E i \in 1..Len(s) : s[i] = Byte(b)
  THEN (CHOOSE i \in 1..Len(s) : s[i] = Byte(b) /\ \A j \in 1..(i - 1) : s[j] # Byte(b)) - 1
  ELSE -1

\* byte_slice::take_slice(n): the first n bytes are taken out of the slice
\* and returned; the slice keeps the rest.
take_slice(s, n) == [taken |-> SubSeq(s, 1, n), rest |-> SubSeq(s, n + 1, Len(s))]

\* byte_slice::remove_prefix(n)
remove_prefix(s, n) == SubSeq(s, n + 1, Len(s))

\* A mutant of message: splits at the last ':' instead of the first.
message_last_colon(raw) ==
  IF memchr(raw, COLON) < 0 THEN [topic |-> << >>, contents |-> raw]
  ELSE LET k == CHOOSE i \in 1..Len(raw) :
                  raw[i] = Byte(COLON) /\ \A j \in (i + 1)..Len(raw) : raw[j] # Byte(COLON)
       IN [topic |-> SubSeq(raw, 1, k - 1), contents |-> SubSeq(raw, k + 1, Len(raw))]

\* A mutant of message: a frame without ':' becomes the empty marker.
message_drop_unsplit(raw) ==
  LET split == memchr(raw, COLON)
  IN IF split < 0 THEN [topic |-> << >>, contents |-> << >>]
     ELSE [topic |-> take_slice(raw, split).taken,
           contents |-> remove_prefix(take_slice(raw, split).rest, 1)]

message(raw) ==
  LET split == memchr(raw, COLON)
  IN IF split < 0 THEN [topic |-> << >>, contents |-> raw]
     ELSE [topic |-> take_slice(raw, split).taken,
           contents |-> remove_prefix(take_slice(raw, split).rest, 1)]

\* A mutant of matches: the expected bytes are a prefix of the actual ones.
matches_prefix(actual, expected) ==
  Len(expected) <= Len(actual) /\ SubSeq(actual, 1, Len(expected)) = expected

\* matches(actual, expected): same size and same bytes.
matches(actual, expected) == actual = expected

(***************************************************************************)
(* to_z85 (engine.cpp): zmq_z85_encode turns every 4 bytes into 5 base-85  *)
(* characters, most significant first.  The model's hashes are one such    *)
(* block wide; the text array holds the characters and a final NUL (0).    *)
(***************************************************************************)
Z85Alphabet ==
  << 48, 49, 50, 51, 52, 53, 54, 55, 56, 57, 97, 98, 99, 100, 101, 102, 103,
     104, 105, 106, 107, 108, 109, 110, 111, 112, 113, 114, 115, 116, 117,
     118, 119, 120, 121, 122, 65, 66, 67, 68, 69, 70, 71, 72, 73, 74, 75, 76,
     77, 78, 79, 80, 81, 82, 83, 84, 85, 86, 87, 88, 89, 90, 46, 45, 58, 43,
     61, 94, 33, 47, 42, 63, 38, 60, 62, 40, 41, 91, 93, 123, 125, 64, 37, 36,
     35 >>

to_z85(in) ==
  [i \in 1..6 |-> IF i = 6 THEN 0 ELSE Z85Alphabet[((in \div (85 ^ (5 - i))) % 85) + 1]]

\* base85{}: a value-initialised text, not cached.
base85_empty == [text |-> [i \in 1..6 |-> 0], cached |-> FALSE]

(***************************************************************************)
(* display::falling_text (falling_text.cpp): the groups' counters and      *)
(* texts, the cursor offset_ and the deadline next_.                       *)
(***************************************************************************)
Groups == 0..(group_count - 1)

\* clock::time_point::min()
time_min == -1

\* A mutant first: the groups are not staggered.
falling_text_level ==
  [count |-> [g \in Groups |-> max_u8 - 1],
   text |-> [g \in Groups |-> [i \in 1..5 |-> 0]],
   offset |-> 0,
   next |-> time_min]

falling_text_init ==
  [count |-> [g \in Groups |-> max_u8 - ((text_size * g) \div group_count) - 1],
   text |-> [g \in Groups |-> [i \in 1..5 |-> 0]],
   offset |-> 0,
   next |-> time_min]

\* A mutant of add_text: the seeded group shows its first character at once.
add_text_no_latency(ft, src) ==
  [ft EXCEPT !.text[ft.offset] = SubSeq(src, 1, Len(src) - 1),
             !.count[ft.offset] = 0,
             !.offset = (ft.offset + 1) % group_count]

add_text(ft, src) ==
  [ft EXCEPT !.text[ft.offset] = SubSeq(src, 1, Len(src) - 1),
             !.count[ft.offset] = max_u8,
             !.offset = (ft.offset + 1) % group_count]

\* A mutant of draw_ready: it always paints.
draw_ready_always(ft) == TRUE

\* A mutant of draw_ready: it paints one tick before the wrap too.
draw_ready_at_wrap(ft) == ~(ft.count[ft.offset] = text_size)

\* Whether draw_next paints: not when the active group is fully shown or is
\* one tick before its wrap.
draw_ready(ft) ==
  ~(ft.count[ft.offset] = text_size \/ ft.count[ft.offset] = max_u8 - 1)

\* A mutant of draw_step: the deadline moves on from its old value.
draw_step_from_deadline(ft, now) ==
  [ft EXCEPT !.count = [g \in Groups |-> (ft.count[g] + 1) % (max_u8 + 1)],
             !.next = ft.next + text_fall_delay]

\* draw_next(now) when it paints.
draw_step(ft, now) ==
  [ft EXCEPT !.count = [g \in Groups |-> (ft.count[g] + 1) % (max_u8 + 1)],
             !.next = now + text_fall_delay]

(***************************************************************************)
(* The state.                                                              *)
(***************************************************************************)
VARIABLES
  profile,     \* which environment the specification explores
  running,     \* engine::running_
  exit_pipe,   \* bytes written to the wake pipe and never read
  sig,         \* the SIGINT handler: "idle", "flagged" (running_ stored), "done"
  clock,       \* std::chrono::steady_clock, in ms
  jumps,       \* how many times the clock has been seen to advance
  sub_queue,   \* frames delivered to the ZMQ_SUB socket and not yet received
  pubs,        \* frames the daemon has published to this subscriber
  rpc_req,     \* the request the daemon has not answered yet, or "none"
  state,       \* struct motrix
  pc,          \* where the engine's thread is
  sync,        \* the locals of display_sync_progress
  tx,          \* the locals of display_txpool
  wfp,         \* the locals of wait_for_pub
  event,       \* the expect<pub::message> wait_for_pub returned
  raw,         \* the frame handed to pub::message
  msg,         \* the pub::message made of raw
  hist         \* what has happened: requests issued, overlays shown, seeds

vars == << profile, running, exit_pipe, sig, clock, jumps, sub_queue, pubs,
           rpc_req, state, pc, sync, tx, wfp, event, raw, msg, hist >>

(***************************************************************************)
(* The environment: the daemon's frames and replies, the clock.            *)
(***************************************************************************)
BlockIds == {1, 2}

JsonCell(v) == [json |-> v]

Frame(topic, payload) == topic \o << Byte(COLON) >> \o << JsonCell(payload) >>

MinimalChain(h, p, ids) ==
  Frame(minimal_chain_topic,
        [obj |-> [first_height |-> h, first_prev_id |-> p, ids |-> ids]])

FullChain(blocks) == Frame(full_chain_topic, [arr |-> blocks])

Block(p, txs) == [prev_id |-> p, tx_hashes |-> txs]

MinimalTxpool(ids) ==
  Frame(minimal_txpool_topic, [arr |-> [i \in 1..Len(ids) |-> [id |-> ids[i]]]])

\* Frames nothing handles: a longer topic with a subscribed prefix, and a
\* frame without ':'.
OtherFrames ==
  { Frame(minimal_chain_topic \o << Byte(50) >>, [bad |-> TRUE]), minimal_chain_topic }

\* A payload the views refuse: a minimal-chain object without ids.
BadFrames == { MinimalChain(2, 1, << >>) }

\* The frames of the "engine" profile: a daemon that syncs, publishes
\* blocks and transactions, and frames nothing handles.
EngineFrames ==
  { MinimalChain(2, 1, << 2 >>), MinimalChain(1, 2, << 1 >>),
    FullChain(<< Block(1, << 11 >>) >>), MinimalTxpool(<< 11 >>) }
  \cup OtherFrames \cup BadFrames

\* The frames of the "steady" profile: blocks after parent 1 or 2, in one
\* or two ids, at the daemon's height or (a reorg) below it; full blocks
\* that confirm transaction 11; transaction 12 entering the pool.
SteadyFrames ==
  { MinimalChain(2, 1, << 2 >>), MinimalChain(2, 2, << 1 >>), MinimalChain(2, 1, << 1, 2 >>),
    MinimalChain(1, 1, << 2 >>),
    FullChain(<< Block(1, << 11 >>) >>), FullChain(<< Block(2, << 11 >>) >>),
    FullChain(<< Block(1, << 11 >>), Block(2, << >>) >>),
    MinimalTxpool(<< 12 >>) }

\* The frames of the "carousel" profile: transactions that come and go.
CarouselFrames ==
  { MinimalTxpool(<< 11 >>), MinimalTxpool(<< 12, 11 >>), FullChain(<< Block(1, << 12 >>) >>) }

\* The frames of the "fault" profile: on the recognised topics, bytes that
\* are not JSON, an object that lacks first_prev_id, no ids, no blocks; a
\* transaction entering the pool and a block below the daemon's height.
FaultFrames ==
  { minimal_chain_topic \o << Byte(COLON), Byte(97) >>,
    Frame(minimal_chain_topic, [obj |-> [first_height |-> 2, ids |-> << 2 >>]]),
    MinimalChain(2, 1, << >>),
    FullChain(<< >>),
    full_chain_topic \o << Byte(COLON), Byte(97) >>,
    minimal_txpool_topic \o << Byte(COLON), Byte(97) >>,
    MinimalTxpool(<< 11 >>),
    MinimalChain(1, 1, << 2 >>) }

\* The frames of the "chain" profile: block n follows block n - 1.
ChainFrame(n) == MinimalChain(n, n - 1, << n >>)

DaemonFrames ==
  CASE profile = "engine" -> EngineFrames
    [] profile = "steady" -> SteadyFrames
    [] profile = "carousel" -> CarouselFrames
    [] profile \in { "chain", "quiet" } -> { ChainFrame(pubs + 1) }
    [] profile = "fault" -> FaultFrames
    [] OTHER -> { }

PubBound ==
  CASE profile = "engine" -> MaxPub
    [] profile = "steady" -> MaxSteadyPub
    [] profile = "carousel" -> MaxCarouselPub
    [] profile = "chain" -> MaxBlocks
    [] profile = "fault" -> MaxFaultPub
    [] profile = "quiet" -> MaxQuietPub
    [] OTHER -> 0

QueueBound == IF profile = "engine" THEN MaxQueue ELSE 1

Info(h, t, o, i, b) ==
  [height |-> h, target_height |-> t, outgoing_connections_count |-> o,
   incoming_connections_count |-> i, top_block_hash |-> b,
   mainnet |-> TRUE, testnet |-> FALSE, stagenet |-> FALSE]

\* The get_info replies: in the "engine" profile a synced daemon, one far
\* behind, one that knows no target, one without connections; a synced
\* daemon in the "steady" and "carousel" profiles; one that is syncing in
\* the "chain" profile and, two blocks behind, in the "tick" and "lag"
\* profiles.
InfoReplies ==
  CASE profile = "engine" ->
         { Info(2, 2, 1, 0, 1), Info(1, 5003, 0, 1, 1), Info(1, 0, 1, 1, 2),
           Info(2, 2, 0, 0, 1) }
    [] profile = "steady" -> { Info(2, 2, 1, 0, b) : b \in BlockIds }
    [] profile = "carousel" -> { Info(2, 2, 1, 0, 1) }
    [] profile = "chain" -> { Info(0, MaxBlocks + 1, 1, 0, 0) }
    [] profile \in { "tick", "lag" } -> { Info(1, 3, 1, 0, 1) }
    [] profile = "quiet" -> { Info(0, big_sync_interval + 3, 1, 0, 0) }
    [] profile = "fault" ->
         { Info(2, 2, 1, 0, 1), Info(1, 5003, 1, 0, 1), Info(1, 5003, 0, 0, 1) }
    [] OTHER -> { }

Pool(ids) == [transactions |-> [i \in 1..Len(ids) |-> [tx_hash |-> ids[i]]]]

PoolReplies ==
  CASE profile = "steady" -> { Pool(<< >>), Pool(<< 11, 12 >>) }
    [] profile = "carousel" -> { Pool(<< 11 >>), Pool(<< 12, 11 >>) }
    [] OTHER -> { Pool(<< >>), Pool(<< 12, 11 >>) }

\* The "quiet" profile: a minute less than the silence that ends a wait.
quiet_gap == no_pubs_timeout - 60 * 1000

\* How far the clock may be seen to advance between two readings, other
\* than by the timeout of a timed wait.
Deltas ==
  CASE profile = "engine" -> { no_pubs_timeout }
    [] profile = "lag" -> { text_fall_delay + 10 }
    [] profile = "quiet" -> { quiet_gap }
    [] OTHER -> { }

JumpBound ==
  CASE profile = "carousel" -> MaxTicks
    [] profile = "tick" -> MaxFalls
    [] profile = "lag" -> MaxLags
    [] profile = "quiet" -> MaxQuiet
    [] OTHER -> MaxJumps

\* The clock advances by d; the model follows JumpBound advances that are
\* not the end of a timed wait on the wake pipe.
Advance(d, counted) ==
  /\ (counted /\ d > 0) => jumps < JumpBound
  /\ clock' = clock + d
  /\ jumps' = IF counted /\ d > 0 THEN jumps + 1 ELSE jumps

\* The time a computation may take.
Elapsed == {0} \cup Deltas

\* The time a blocking call with timeout t takes when it runs into the timeout.
TimedOut(t) == {t} \cup { d \in Deltas : d > t }

\* The time a blocking call with timeout t takes when it ends before.
Early(t) == {0} \cup { d \in Deltas : d < t }

\* ZMQ_SUB delivers a frame when one subscribed topic is a prefix of it.
IsPrefix(p, s) == Len(p) <= Len(s) /\ SubSeq(s, 1, Len(p)) = p

Subscribed(f) == \E topic \in state.subs : IsPrefix(topic, f)

(***************************************************************************)
(* Initial state: engine::run has set up the wake pipe, the SIGINT handler *)
(* and struct motrix (subscribed to the minimal-chain topic).              *)
(***************************************************************************)
no_event == [status |-> "none", topic |-> << >>, contents |-> << >>]

sync_dead == [chain |-> << >>, target_height |-> 0, last_sync |-> time_min,
              header |-> << "", "" >>, progress |-> << 0, 0 >>]

tx_dead == [txpool |-> << >>, last_txs_count |-> 0, full_block_prev |-> 0,
            minimal_block_prev |-> 0, current_head |-> 0, ret |-> "none",
            first_prev_id |-> 0]

wfp_dead == [caller |-> "none", init |-> FALSE, next |-> 0, slippage |-> 0,
             start |-> 0, now |-> 0, text_delay |-> 0]

\* What the history notes of the last full-chain frame: nothing yet.
no_confirmed == [noted |-> FALSE, T |-> {}, before |-> {}, resync |-> FALSE]

\* No group has been seeded by add_text yet.
never_seeded == [g \in Groups |-> -1]

hist_init == [warnings |-> << >>, seeds |-> << >>, recheck |-> "none", chain_log |-> << >>,
              minimals |-> {}, fulls |-> {}, confirmed |-> no_confirmed, reinserted |-> {},
              since |-> never_seeded, thrown |-> "none"]

motrix_init ==
  [rpc |-> FALSE, subs |-> { minimal_chain_topic }, daemon_height |-> 0,
   target_height |-> 0, text |-> falling_text_init, last_block_id |-> 0]

InitEngine ==
  /\ running = TRUE
  /\ exit_pipe = 0
  /\ sig = "idle"
  /\ clock = 0
  /\ jumps = 0
  /\ sub_queue = << >>
  /\ pubs = 0
  /\ rpc_req = "none"
  /\ state = motrix_init
  /\ pc = "run"
  /\ sync = sync_dead
  /\ tx = tx_dead
  /\ wfp = wfp_dead
  /\ event = no_event
  /\ hist = hist_init

\* No frame has been split.
no_message == [made |-> FALSE, topic |-> << >>, contents |-> << >>]

Init == profile = "engine" /\ InitEngine /\ raw = << >> /\ msg = no_message

(***************************************************************************)
(* The SIGINT handler of engine::run and the daemon.                       *)
(***************************************************************************)
engine_vars == << state, pc, sync, tx, wfp, event, hist, clock, jumps, rpc_req >>

\* running_ = false;
SigintFlag ==
  /\ sig = "idle"
  /\ pc \notin { "done", "thrown" }
  /\ sig' = "flagged"
  /\ running' = FALSE
  /\ UNCHANGED << profile, exit_pipe, sub_queue, pubs, raw, msg, engine_vars >>

\* A handler that writes to the pipe without having cleared the flag.
SigintWrite_first ==
  /\ sig = "idle"
  /\ pc \notin { "done", "thrown" }
  /\ sig' = "done"
  /\ exit_pipe' = exit_pipe + 1
  /\ UNCHANGED << profile, running, sub_queue, pubs, raw, msg, engine_vars >>

\* ::write(signal_exit, "\0", 1)
SigintWrite ==
  /\ sig = "flagged"
  /\ sig' = "done"
  /\ exit_pipe' = exit_pipe + 1
  /\ UNCHANGED << profile, running, sub_queue, pubs, raw, msg, engine_vars >>

\* The request in flight fails: the invoke will end with an error other
\* than the terminated one.
RpcFault ==
  /\ pc \in { "get_info", "pool" }
  /\ rpc_req \in { "get_info", "get_transaction_pool" }
  /\ rpc_req' = "failed"
  /\ UNCHANGED << profile, running, exit_pipe, sig, sub_queue, pubs, raw, msg,
                  state, pc, sync, tx, wfp, event, hist, clock, jumps >>

\* The daemon publishes a frame; the socket queues it when it is subscribed.
DaemonPublish ==
  /\ pc \notin { "done", "thrown" }
  /\ pubs < PubBound
  /\ Len(sub_queue) < QueueBound
  /\ \E f \in DaemonFrames :
       /\ Subscribed(f)
       /\ sub_queue' = Append(sub_queue, f)
  /\ pubs' = pubs + 1
  /\ UNCHANGED << profile, running, exit_pipe, sig, raw, msg, engine_vars >>

(***************************************************************************)
(* Pieces of the engine's code.                                            *)
(***************************************************************************)
env_vars == << profile, running, exit_pipe, sig, pubs, raw, msg >>

\* zmq::invoke: the reply is read, or the call ends with the terminated
\* error, which it does only when the wake pipe is readable.
\* A request that has failed ends with another error.
InvokeOutcomes ==
  IF rpc_req = "failed" THEN { "error" }
  ELSE { "ok" } \cup (IF exit_pipe > 0 THEN { "eterm" } ELSE { })

\* An exception leaves the view and engine::run; what records its type.
\* A mutant first: the exception is swallowed and the sync view re-entered.
Throw_resync(what) ==
  /\ pc' = "sync_loop"
  /\ hist' = hist

\* Another: the view is left without an error.
Throw_no_error(what) ==
  /\ pc' = "thrown"
  /\ hist' = hist

\* Another: the exception is caught by the outer selector.
Throw_to_selector(what) ==
  /\ pc' = "run"
  /\ hist' = hist

Throw(what) ==
  /\ pc' = "thrown"
  /\ hist' = [hist EXCEPT !.thrown = what]

\* Unsigned 64-bit subtraction; the model's heights are far below the modulus.
u64_sub(a, b) == (a - b + U64) % U64

\* The JSON value of a payload, [bad |-> TRUE] when it is not one JSON text.
json_value(contents) ==
  IF Len(contents) = 1 /\ "json" \in DOMAIN contents[1]
  THEN contents[1].json ELSE [bad |-> TRUE]

\* wire::json::from_bytes<pub::minimal_chain>: an object with the three
\* required fields, else an exception.
reads_minimal_chain(v) ==
  "obj" \in DOMAIN v /\ { "first_height", "ids", "first_prev_id" } \subseteq DOMAIN v.obj

\* wire::json::from_bytes<pub::full_chain> and <pub::minimal_txpool>: an array.
reads_array(v) == "arr" \in DOMAIN v

\* Line 192 of wait_for_pub: the silence timeout has passed. A mutant first.
silence_elapsed_late(now, start) == no_pubs_timeout < now - start

silence_elapsed(now, start) == no_pubs_timeout <= now - start

\* Line 190 of wait_for_pub: the loop's test. A mutant first.
wfp_continues_always(r) == TRUE

wfp_continues(r) == r

\* Lines 211-214 of wait_for_pub: the entry's text is encoded once.
\* A mutant first: it encodes at every use, and the entry's position.
seed_entry_position(e, pos) ==
  [e EXCEPT !.text = to_z85(pos), !.cached = TRUE]

seed_entry(e, pos) ==
  [e EXCEPT !.text = IF e.cached THEN e.text ELSE to_z85(e.hash), !.cached = TRUE]

\* Lines 197-223 of wait_for_pub: seed groups until draw_next paints.
\* r is the position std::advance moves the iterator to: 0..size.
RECURSIVE seed_loop(_, _, _, _, _, _, _)
seed_loop(ft, hashes, init, next, r, lastid, seeds) ==
  IF draw_ready(ft)
  THEN [ft |-> ft, hashes |-> hashes, init |-> init, next |-> next, seeds |-> seeds]
  ELSE IF hashes # << >>
       THEN LET n0 == IF init THEN next ELSE r
                n == IF n0 = Len(hashes) THEN 0 ELSE n0
                e == seed_entry(hashes[n + 1], n)
            IN seed_loop(add_text(ft, e.text), [hashes EXCEPT ![n + 1] = e], TRUE, n,
                         r, lastid,
                         Append(seeds, [hash |-> hashes[n + 1].hash, text |-> e.text,
                                        was_cached |-> hashes[n + 1].cached,
                                        pos |-> n, size |-> Len(hashes)]))
       ELSE seed_loop(add_text(ft, to_z85(lastid)), hashes, init, next, r, lastid,
                      Append(seeds, [hash |-> lastid, text |-> to_z85(lastid),
                                     was_cached |-> FALSE, pos |-> -1, size |-> 0]))

\* The successful draw_next calls since add_text seeded each group, after an
\* iteration that seeded k groups from the cursor offset on and then painted
\* once; the count is followed up to text_size + 2.
since_step(since, offset, k) ==
  [g \in Groups |->
     IF \E i \in 0..(k - 1) : g = (offset + i) % group_count THEN 1
     ELSE IF since[g] < 0 \/ since[g] >= text_size + 2 THEN since[g]
     ELSE since[g] + 1]

\* The carousel wait_for_pub was given: the chain deque or the txpool map.
Hashes == IF wfp.caller = "sync" THEN sync.chain ELSE tx.txpool

SetHashes(h) ==
  IF wfp.caller = "sync"
  THEN sync' = [sync EXCEPT !.chain = h] /\ UNCHANGED tx
  ELSE tx' = [tx EXCEPT !.txpool = h] /\ UNCHANGED sync

\* wait_for_pub is entered (lines 184-189).
WfpCall(caller) ==
  /\ pc' = "wfp_loop"
  /\ wfp' = [caller |-> caller, init |-> FALSE, next |-> 0, slippage |-> 0,
             start |-> clock, now |-> clock, text_delay |-> 0]

\* wait_for_pub returns ev to its caller.
WfpReturn(ev) ==
  /\ event' = ev
  /\ pc' = IF wfp.caller = "sync" THEN "sync_event" ELSE "txpool_event"
  /\ wfp' = wfp_dead

Received(f) ==
  [status |-> "ok", topic |-> message(f).topic, contents |-> message(f).contents]

Failed(code) == [status |-> code, topic |-> << >>, contents |-> << >>]

\* display_sync_progress returns; engine::run goes on to display_txpool.
\* A mutant first: control goes back to the head of the outer loop.
SyncReturn_to_selector ==
  /\ pc' = "run"
  /\ sync' = sync_dead

SyncReturn ==
  /\ pc' = "txpool_enter"
  /\ sync' = sync_dead

(***************************************************************************)
(* engine::run and display_sync_progress.                                  *)
(***************************************************************************)
\* engine::run line 505 and, when running, display_sync_progress lines 284-293.
EngineRun ==
  /\ pc = "run"
  /\ IF running
     THEN /\ pc' = "sync_loop"
          /\ sync' = [sync_dead EXCEPT !.header = << "", "disconnected" >>]
     ELSE /\ pc' = "done"
          /\ UNCHANGED sync
  /\ UNCHANGED << env_vars, clock, jumps, sub_queue, rpc_req, state, tx, wfp, event, hist >>

\* Line 295.
SyncLoop ==
  /\ pc = "sync_loop"
  /\ IF running THEN pc' = "sync_inner" /\ UNCHANGED sync ELSE SyncReturn
  /\ UNCHANGED << env_vars, clock, jumps, sub_queue, rpc_req, state, tx, wfp, event, hist >>

\* Line 297: the daemon is asked (again). A mutant first: it never is.
AsksAgain_never(sy, now) == FALSE

AsksAgain(sy, now) == sy.target_height = 0 \/ target_sync_interval <= now - sy.last_sync

\* Line 297, then either lines 299-302 (the request is sent) or lines 334-342.
SyncInner ==
  /\ pc = "sync_inner"
  /\ IF AsksAgain(sync, clock)
     THEN /\ state' = [state EXCEPT !.rpc = TRUE]
          /\ rpc_req' = "get_info"
          /\ hist' = [hist EXCEPT !.recheck = "none"]
          /\ pc' = "get_info"
          /\ UNCHANGED << sync, wfp >>
     ELSE /\ sync' = [sync EXCEPT !.progress = << state.daemon_height, sync.target_height >>]
          /\ IF sync.target_height <= state.daemon_height
             THEN pc' = "caught_up" /\ UNCHANGED wfp
             ELSE WfpCall("sync")
          /\ UNCHANGED << state, rpc_req, hist >>
  /\ UNCHANGED << env_vars, clock, jumps, sub_queue, tx, event >>

\* Lines 302-331: the reply to get_info.
GetInfoReply ==
  /\ pc = "get_info"
  /\ rpc_req' = "none"
  /\ \E out \in InvokeOutcomes, d \in Elapsed :
       /\ Advance(d, TRUE)
       /\ CASE out = "eterm" -> SyncReturn /\ UNCHANGED << state, hist >>
            [] out = "error" -> Throw("system_error") /\ UNCHANGED << state, sync >>
            [] out = "ok" ->
                 /\ UNCHANGED hist
                 /\ \E info \in InfoReplies :
                   IF info.outgoing_connections_count = 0 /\ info.incoming_connections_count = 0
                   THEN /\ sync' = [sync EXCEPT !.header = << "offline", "rpc_address" >>]
                        /\ pc' = "offline"
                        /\ UNCHANGED state
                   ELSE /\ sync' = [sync EXCEPT
                              !.last_sync = clock',
                              !.target_height = info.target_height,
                              !.header = << IF info.mainnet THEN "mainnet"
                                            ELSE IF info.stagenet THEN "stagenet"
                                            ELSE IF info.testnet THEN "testnet" ELSE "",
                                            "rpc_address" >>]
                        /\ state' = [state EXCEPT
                              !.last_block_id = info.top_block_hash,
                              !.daemon_height = info.height,
                              !.rpc = IF u64_sub(info.target_height, info.height) <= big_sync_interval
                                      THEN FALSE ELSE @]
                        /\ pc' = "sync_inner"
  /\ UNCHANGED << env_vars, sub_queue, tx, wfp, event >>

\* zmq::wait_for (zmq.cpp:205-212): the poll ends when the subscription
\* socket or the wake pipe is readable. A mutant first: it ends at once.
wait_for_ready_always == TRUE

wait_for_ready == sub_queue # << >> \/ exit_pipe > 0

\* Lines 310-311 and zmq::wait_for: block until the subscription socket or
\* the wake pipe is readable; the wake pipe wins.
OfflineWait ==
  /\ pc = "offline"
  /\ \E d \in Elapsed : Advance(d, TRUE)
  /\ \/ /\ wait_for_ready
        /\ IF exit_pipe > 0 THEN SyncReturn ELSE pc' = "sync_inner" /\ UNCHANGED sync
        /\ UNCHANGED hist
     \/ /\ profile = "fault"
        /\ Throw("system_error")
        /\ UNCHANGED sync
  /\ UNCHANGED << env_vars, sub_queue, rpc_req, state, tx, wfp, event >>

\* Lines 337-339: wait_for(3 s) polls the wake pipe, then the view is left.
CaughtUpWait ==
  /\ pc = "caught_up"
  /\ \E d \in (IF exit_pipe > 0 THEN {0} ELSE {caught_up_delay}) : Advance(d, FALSE)
  /\ SyncReturn
  /\ UNCHANGED << env_vars, sub_queue, rpc_req, state, tx, wfp, event, hist >>

\* Lines 353-356: push a block hash, evicting the oldest of a full buffer.
\* A mutant first: it never evicts.
push_block_unbounded(chain, id) == Append(chain, [hash |-> id] @@ base85_empty)

push_block(chain, id) ==
  Append(IF max_block_hash_buffer <= Len(chain) THEN Tail(chain) ELSE chain,
         [hash |-> id] @@ base85_empty)

\* Lines 362-363: the target is unset and the header says disconnected.
recheck_daemon(sy) == [sy EXCEPT !.target_height = 0, !.header = << "", "disconnected" >>]

\* Lines 343-366: the frame wait_for_pub returned is dispatched.
SyncEvent ==
  /\ pc = "sync_event"
  /\ event' = no_event
  /\ CASE event.status = "eterm" -> SyncReturn /\ UNCHANGED << state, hist >>
       [] event.status = "error" -> Throw("system_error") /\ UNCHANGED << state, sync >>
       [] OTHER ->
            IF matches(event.topic, minimal_chain_topic)
            THEN LET v == json_value(event.contents) IN
                 IF ~reads_minimal_chain(v)
                 THEN Throw("wire_error") /\ UNCHANGED << sync, state >>
                 ELSE IF v.obj.ids = << >>
                 THEN Throw("runtime_error") /\ UNCHANGED << sync, state >>
                 ELSE /\ state' = [state EXCEPT !.daemon_height = v.obj.first_height,
                                                !.last_block_id = Last(v.obj.ids)]
                      /\ sync' = [sync EXCEPT !.chain = push_block(@, Last(v.obj.ids))]
                      /\ pc' = "sync_loop"
                      /\ UNCHANGED hist
            ELSE IF event.topic = << >> /\ event.contents = << >>
            THEN /\ sync' = recheck_daemon(sync)
                 /\ hist' = [hist EXCEPT !.recheck = "syncing"]
                 /\ pc' = "sync_loop"
                 /\ UNCHANGED state
            ELSE pc' = "sync_loop" /\ UNCHANGED << sync, state, hist >>
  /\ UNCHANGED << env_vars, clock, jumps, sub_queue, rpc_req, tx, wfp >>

(***************************************************************************)
(* wait_for_pub.                                                           *)
(***************************************************************************)
\* Lines 190-230 of one iteration, and lines 236-247 when nothing is polled;
\* the receive may fail with an error other than EAGAIN.
WfpLoop ==
  /\ pc = "wfp_loop"
  /\ UNCHANGED << env_vars, rpc_req >>
  /\ IF ~wfp_continues(running)
     THEN /\ WfpReturn(Failed("eterm"))
          /\ UNCHANGED << clock, jumps, sub_queue, state, sync, tx, hist >>
     ELSE IF silence_elapsed(wfp.now, wfp.start)
     THEN /\ WfpReturn(Received(<< >>))
          /\ UNCHANGED << clock, jumps, sub_queue, state, sync, tx, hist >>
     ELSE LET due == state.text.next <= wfp.now IN
          \E r \in (IF due /\ ~wfp.init THEN 0..Len(Hashes) ELSE {0}), d \in Elapsed :
            LET s == IF due
                     THEN seed_loop(state.text, Hashes, wfp.init, wfp.next, r,
                                    state.last_block_id, << >>)
                     ELSE [ft |-> state.text, hashes |-> Hashes, init |-> wfp.init,
                           next |-> wfp.next, seeds |-> << >>]
                ft == IF due THEN draw_step(s.ft, wfp.now) ELSE state.text
                text_delay == (ft.next - (clock + d)) - wfp.slippage
            IN /\ Advance(d, TRUE)
               /\ state' = [state EXCEPT !.text = ft]
               /\ SetHashes(s.hashes)
               /\ hist' = [hist EXCEPT !.seeds = s.seeds,
                                        !.since = IF due
                                                  THEN since_step(@, state.text.offset, Len(s.seeds))
                                                  ELSE @]
               /\ IF 0 < text_delay
                  THEN /\ pc' = "wfp_poll"
                       /\ wfp' = [wfp EXCEPT !.init = s.init, !.next = s.next,
                                             !.text_delay = text_delay]
                       /\ UNCHANGED << event, sub_queue >>
                  ELSE \/ IF sub_queue # << >>
                          THEN /\ WfpReturn(Received(Head(sub_queue)))
                               /\ sub_queue' = Tail(sub_queue)
                          ELSE /\ pc' = "wfp_loop"
                               /\ wfp' = [wfp EXCEPT !.init = s.init, !.next = s.next,
                                                     !.text_delay = text_delay,
                                                     !.now = clock + d,
                                                     !.slippage = (clock + d) - ft.next]
                               /\ UNCHANGED << event, sub_queue >>
                       \/ /\ profile = "fault"
                          /\ WfpReturn(Failed("error"))
                          /\ UNCHANGED sub_queue

\* Lines 232-247: zmq_poll on the subscription socket with timeout text_delay,
\* then the non-blocking receive; either may fail.
WfpPoll ==
  /\ pc = "wfp_poll"
  /\ UNCHANGED << env_vars, rpc_req, state, sync, tx, hist >>
  /\ \/ /\ sub_queue # << >>
        /\ \E d \in Early(wfp.text_delay) : Advance(d, TRUE)
        /\ WfpReturn(Received(Head(sub_queue)))
        /\ sub_queue' = Tail(sub_queue)
     \/ /\ sub_queue = << >>
        /\ \E d \in TimedOut(wfp.text_delay) :
             /\ Advance(d, TRUE)
             /\ wfp' = [wfp EXCEPT !.now = clock + d,
                                   !.slippage = (clock + d) - state.text.next]
        /\ pc' = "wfp_loop"
        /\ UNCHANGED << event, sub_queue >>
     \/ /\ profile = "fault"
        /\ \E d \in Early(wfp.text_delay) : Advance(d, TRUE)
        /\ WfpReturn(Failed("error"))
        /\ UNCHANGED sub_queue

(***************************************************************************)
(* display_txpool, sync_mempool and show_system_warning.                   *)
(***************************************************************************)
\* std::map::emplace: no effect when the key is there. The map is kept as
\* the sequence of its entries in key order.
map_emplace(m, h) ==
  IF \E i \in 1..Len(m) : m[i].hash = h THEN m
  ELSE LET lower == SelectSeq(m, LAMBDA e : e.hash < h)
           upper == SelectSeq(m, LAMBDA e : e.hash > h)
       IN lower \o << [hash |-> h] @@ base85_empty >> \o upper

\* std::map::erase by key.
map_erase(m, h) == SelectSeq(m, LAMBDA e : e.hash # h)

RECURSIVE emplace_all(_, _)
emplace_all(m, hs) ==
  IF hs = << >> THEN m ELSE emplace_all(map_emplace(m, Head(hs)), Tail(hs))

RECURSIVE erase_all(_, _)
erase_all(m, hs) ==
  IF hs = << >> THEN m ELSE erase_all(map_erase(m, Head(hs)), Tail(hs))

\* A mutant of erase_confirmed: only the last block's transactions leave.
erase_confirmed_last(m, blocks) == erase_all(m, Last(blocks).tx_hashes)

\* Lines 422-426: every block's tx_hashes leave the txpool.
RECURSIVE erase_confirmed(_, _)
erase_confirmed(m, blocks) ==
  IF blocks = << >> THEN m
  ELSE erase_confirmed(erase_all(m, Head(blocks).tx_hashes), Tail(blocks))

\* The keys of a carousel.
Keys(m) == { m[i].hash : i \in 1..Len(m) }

\* Line 397: the chain has been rewound. A mutant first: it never sees it.
is_reorg_never(first_height, daemon_height) == FALSE

is_reorg(first_height, daemon_height) == first_height < daemon_height

\* Line 271: what the overlay shows. A mutant first: it shows no count.
system_warning_uncounted(id, height, tx_count) ==
  [id |-> id, height |-> height, tx_count |-> 0]

system_warning(id, height, tx_count) ==
  [id |-> id, height |-> height, tx_count |-> tx_count]

\* sync_mempool lines 255-260: the map is cleared and the request is sent.
\* A mutant first: the map is not cleared.
SyncMempoolCall_keeps(t, st, ret) ==
  /\ tx' = [t EXCEPT !.ret = ret]
  /\ state' = [st EXCEPT !.rpc = TRUE]
  /\ rpc_req' = "get_transaction_pool"
  /\ pc' = "pool"

SyncMempoolCall(t, st, ret) ==
  /\ tx' = [t EXCEPT !.txpool = << >>, !.ret = ret]
  /\ state' = [st EXCEPT !.rpc = TRUE]
  /\ rpc_req' = "get_transaction_pool"
  /\ pc' = "pool"

\* show_system_warning lines 271-277: the overlay is put on the screen; the
\* mempool is fetched again when head_out differs from expected_head.
\* h is the history with what the caller has noted.
\* A mutant first: the pool is fetched when the shown id is a new one.
ShowWarning_new_id(t, st, h) ==
  /\ hist' = [h EXCEPT !.warnings =
                Append(@, system_warning(st.last_block_id, st.daemon_height,
                                         t.last_txs_count))]
  /\ IF t.current_head # st.last_block_id
     THEN SyncMempoolCall(t, st, "warning")
     ELSE /\ tx' = [t EXCEPT !.current_head = st.last_block_id]
          /\ state' = st
          /\ pc' = "overlay"
          /\ rpc_req' = "none"

ShowWarning(t, st, h) ==
  /\ hist' = [h EXCEPT !.warnings =
                Append(@, system_warning(st.last_block_id, st.daemon_height,
                                         t.last_txs_count))]
  /\ IF t.current_head # t.full_block_prev
     THEN SyncMempoolCall(t, st, "warning")
     ELSE /\ tx' = [t EXCEPT !.current_head = st.last_block_id]
          /\ state' = st
          /\ pc' = "overlay"
          /\ rpc_req' = "none"

\* Lines 371-375 and sync_mempool lines 255-260.
TxpoolEnter ==
  /\ pc = "txpool_enter"
  /\ SyncMempoolCall(tx_dead,
                     [state EXCEPT !.subs = @ \cup { full_chain_topic, minimal_txpool_topic }],
                     "enter")
  /\ UNCHANGED << env_vars, clock, jumps, sub_queue, sync, wfp, event, hist >>

\* The tx hashes of a get_transaction_pool reply.
\* A mutant first: the first transaction of the reply is left out.
pool_hashes_but_first(ts) ==
  [i \in 1..(Len(ts) - 1) |-> ts[i + 1].tx_hash]

RECURSIVE pool_hashes(_)
pool_hashes(ts) ==
  IF ts = << >> THEN << >> ELSE << Head(ts).tx_hash >> \o pool_hashes(Tail(ts))

\* sync_mempool lines 260-266, and what its caller does next: lines 377-380
\* after the first call, line 411 after a gap, lines 277-278 in
\* show_system_warning.  An error other than the terminated one is thrown.
PoolReply ==
  /\ pc = "pool"
  /\ UNCHANGED << env_vars, sub_queue, sync, wfp, event >>
  /\ \E out \in InvokeOutcomes, d \in Elapsed, pool \in PoolReplies :
       /\ Advance(d, TRUE)
       /\ LET t == IF out = "ok"
                   THEN [tx EXCEPT !.txpool = emplace_all(<< >>, pool_hashes(pool.transactions)),
                                   !.ret = "none"]
                   ELSE [tx EXCEPT !.ret = "none"]
              st == IF out = "ok" THEN [state EXCEPT !.rpc = FALSE] ELSE state
          IN CASE out = "error" ->
                    /\ Throw("system_error")
                    /\ tx' = t
                    /\ rpc_req' = "none"
                    /\ UNCHANGED state
               [] out # "error" /\ tx.ret = "enter" ->
                    /\ tx' = [t EXCEPT !.last_txs_count = 0, !.full_block_prev = 0,
                                       !.minimal_block_prev = 0,
                                       !.current_head = st.last_block_id]
                    /\ state' = st
                    /\ pc' = "txpool_loop"
                    /\ rpc_req' = "none"
                    /\ UNCHANGED hist
               [] out # "error" /\ tx.ret = "gap" ->
                    IF t.full_block_prev = t.first_prev_id
                    THEN ShowWarning(t, st, hist)
                    ELSE /\ tx' = t
                         /\ state' = st
                         /\ pc' = "txpool_loop"
                         /\ rpc_req' = "none"
                         /\ UNCHANGED hist
               [] out # "error" /\ tx.ret = "warning" ->
                    /\ tx' = [t EXCEPT !.current_head = st.last_block_id]
                    /\ state' = st
                    /\ pc' = "overlay"
                    /\ rpc_req' = "none"
                    /\ UNCHANGED hist

\* Line 386.
TxpoolLoop ==
  /\ pc = "txpool_loop"
  /\ IF running THEN WfpCall("txpool") ELSE pc' = "txpool_exit" /\ UNCHANGED wfp
  /\ UNCHANGED << env_vars, clock, jumps, sub_queue, rpc_req, state, sync, tx, event, hist >>

\* What ids[ids.size()] may read: the element past the end of the vector.
PastTheEnd == BlockIds \cup {0}

\* The ids of a minimal-txpool payload.
RECURSIVE tx_ids(_)
tx_ids(ts) == IF ts = << >> THEN << >> ELSE << Head(ts).id >> \o tx_ids(Tail(ts))

\* The tx hashes of all the blocks of a full-chain payload.
RECURSIVE block_txs(_)
block_txs(blocks) ==
  IF blocks = << >> THEN {} ELSE SeqToSet(Head(blocks).tx_hashes) \cup block_txs(Tail(blocks))

\* The history forgets what it noted about the view that ends.
view_over(h) ==
  [h EXCEPT !.chain_log = << >>, !.minimals = {}, !.fulls = {},
            !.confirmed = no_confirmed, !.reinserted = {}]

\* The last two chain frames dispatched in this view.
log_chain(h, f) ==
  [h EXCEPT !.chain_log = IF h.chain_log = << >> THEN << f >> ELSE << Last(h.chain_log), f >>]

\* Lines 389-440: the frame wait_for_pub returned is dispatched.
TxpoolEvent ==
  /\ pc = "txpool_event"
  /\ event' = no_event
  /\ UNCHANGED << env_vars, clock, jumps, sub_queue, sync, wfp >>
  /\ LET v == json_value(event.contents)
         h0 == [hist EXCEPT !.confirmed = no_confirmed]
     IN
     CASE event.status = "eterm" ->
            /\ pc' = "run"
            /\ tx' = tx_dead
            /\ hist' = view_over(hist)
            /\ UNCHANGED << state, rpc_req >>
       [] event.status = "error" ->
            Throw("system_error") /\ UNCHANGED << tx, state, rpc_req >>
       [] event.status = "ok" /\ matches(event.topic, minimal_chain_topic) ->
            IF ~reads_minimal_chain(v)
            THEN Throw("wire_error") /\ UNCHANGED << tx, state, rpc_req >>
            ELSE IF v.obj.ids = << >>
            THEN Throw("runtime_error") /\ UNCHANGED << tx, state, rpc_req >>
            ELSE LET minimal_block == v.obj
                     st == [state EXCEPT !.daemon_height = minimal_block.first_height]
                 IN IF is_reorg(minimal_block.first_height, state.daemon_height)
                    THEN /\ state' = st
                         /\ pc' = "txpool_exit"
                         /\ hist' = h0
                         /\ UNCHANGED << tx, rpc_req >>
                    ELSE \E past \in (IF Len(minimal_block.ids) = 1 THEN {0} ELSE PastTheEnd) :
                      LET st2 == [st EXCEPT !.last_block_id = Last(minimal_block.ids)]
                          t == [tx EXCEPT
                                  !.first_prev_id = minimal_block.first_prev_id,
                                  !.minimal_block_prev =
                                     IF Len(minimal_block.ids) = 1
                                     THEN minimal_block.first_prev_id ELSE past]
                          note == [kind |-> "minimal", prev |-> minimal_block.first_prev_id,
                                   ids |-> minimal_block.ids]
                          h == [log_chain(h0, note) EXCEPT !.minimals = @ \cup { note }]
                      IN IF state.last_block_id # minimal_block.first_prev_id
                         THEN SyncMempoolCall(t, st2, "gap") /\ hist' = h
                         ELSE IF t.full_block_prev = minimal_block.first_prev_id
                         THEN ShowWarning(t, st2, h)
                         ELSE /\ tx' = t
                              /\ state' = st2
                              /\ pc' = "txpool_loop"
                              /\ hist' = h
                              /\ UNCHANGED rpc_req
       [] event.status = "ok" /\ matches(event.topic, full_chain_topic) ->
            IF ~reads_array(v)
            THEN Throw("wire_error") /\ UNCHANGED << tx, state, rpc_req >>
            ELSE IF v.arr = << >>
            THEN Throw("runtime_error") /\ UNCHANGED << tx, state, rpc_req >>
            ELSE LET full_blocks == v.arr
                     t == [tx EXCEPT
                             !.last_txs_count = Len(Last(full_blocks).tx_hashes),
                             !.full_block_prev = Last(full_blocks).prev_id,
                             !.txpool = erase_confirmed(@, full_blocks)]
                     note == [kind |-> "full", prev |-> Last(full_blocks).prev_id,
                              count |-> Len(Last(full_blocks).tx_hashes)]
                     shown == t.minimal_block_prev = Last(full_blocks).prev_id
                     h == [log_chain(hist, note) EXCEPT
                             !.fulls = @ \cup { note },
                             !.confirmed =
                                [noted |-> TRUE, T |-> block_txs(full_blocks),
                                 before |-> Keys(tx.txpool),
                                 resync |-> shown /\ t.current_head # t.full_block_prev]]
                 IN IF shown
                    THEN ShowWarning(t, state, h)
                    ELSE /\ tx' = t
                         /\ pc' = "txpool_loop"
                         /\ hist' = h
                         /\ UNCHANGED << state, rpc_req >>
       [] event.status = "ok" /\ matches(event.topic, minimal_txpool_topic) ->
            IF ~reads_array(v)
            THEN Throw("wire_error") /\ UNCHANGED << tx, state, rpc_req >>
            ELSE /\ tx' = [tx EXCEPT !.txpool = emplace_all(@, tx_ids(v.arr))]
                 /\ pc' = "txpool_loop"
                 /\ hist' = [h0 EXCEPT !.reinserted =
                               @ \cup { e.hash : e \in { x \in SeqToSet(tx.txpool) :
                                          x.cached /\ x.hash \in SeqToSet(tx_ids(v.arr)) } }]
                 /\ UNCHANGED << state, rpc_req >>
       [] event.status = "ok" /\ event.topic = << >> /\ event.contents = << >> ->
            /\ pc' = "txpool_exit"
            /\ hist' = [h0 EXCEPT !.recheck = "steady"]
            /\ UNCHANGED << tx, state, rpc_req >>
       [] OTHER ->
            pc' = "txpool_loop" /\ hist' = h0 /\ UNCHANGED << tx, state, rpc_req >>

\* Lines 442-443: the two extra topics are unsubscribed; display_txpool returns.
TxpoolExit ==
  /\ pc = "txpool_exit"
  /\ state' = [state EXCEPT !.subs = @ \ { minimal_txpool_topic, full_chain_topic }]
  /\ tx' = tx_dead
  /\ hist' = view_over(hist)
  /\ pc' = "run"
  /\ UNCHANGED << env_vars, clock, jumps, sub_queue, rpc_req, sync, wfp, event >>

\* show_system_warning line 278: wait_for(16 s) polls the wake pipe.
OverlayWait ==
  /\ pc = "overlay"
  /\ \E d \in (IF exit_pipe > 0 THEN {0} ELSE {block_display_time}) : Advance(d, FALSE)
  /\ pc' = "txpool_loop"
  /\ UNCHANGED << env_vars, sub_queue, rpc_req, state, sync, tx, wfp, event, hist >>

(***************************************************************************)
(* The engine with its environment.                                        *)
(***************************************************************************)
Next ==
  \/ SigintFlag
  \/ SigintWrite
  \/ DaemonPublish
  \/ EngineRun
  \/ SyncLoop
  \/ SyncInner
  \/ GetInfoReply
  \/ OfflineWait
  \/ CaughtUpWait
  \/ SyncEvent
  \/ WfpLoop
  \/ WfpPoll
  \/ TxpoolEnter
  \/ PoolReply
  \/ TxpoolLoop
  \/ TxpoolEvent
  \/ TxpoolExit
  \/ OverlayWait

Spec == Init /\ [][Next]_vars

(***************************************************************************)
(* The engine beside a synced daemon, with no shutdown request.            *)
(***************************************************************************)
InitSteady == profile = "steady" /\ InitEngine /\ raw = << >> /\ msg = no_message

NextSteady ==
  \/ DaemonPublish
  \/ EngineRun
  \/ SyncLoop
  \/ SyncInner
  \/ GetInfoReply
  \/ CaughtUpWait
  \/ WfpLoop
  \/ WfpPoll
  \/ TxpoolEnter
  \/ PoolReply
  \/ TxpoolLoop
  \/ TxpoolEvent
  \/ TxpoolExit
  \/ OverlayWait

SpecSteady == InitSteady /\ [][NextSteady]_vars

(***************************************************************************)
(* The same, followed over more ticks of the falling text.                 *)
(***************************************************************************)
InitCarousel == profile = "carousel" /\ InitEngine /\ raw = << >> /\ msg = no_message

\* No frame of this profile pairs up for an overlay or ends the view.
NextCarousel ==
  \/ DaemonPublish
  \/ EngineRun
  \/ SyncLoop
  \/ SyncInner
  \/ GetInfoReply
  \/ CaughtUpWait
  \/ WfpLoop
  \/ WfpPoll
  \/ TxpoolEnter
  \/ PoolReply
  \/ TxpoolLoop
  \/ TxpoolEvent

SpecCarousel == InitCarousel /\ [][NextCarousel]_vars

(***************************************************************************)
(* The sync view beside a daemon that publishes block after block.         *)
(***************************************************************************)
InitChain == profile = "chain" /\ InitEngine /\ raw = << >> /\ msg = no_message

NextChain ==
  \/ DaemonPublish
  \/ EngineRun
  \/ SyncLoop
  \/ SyncInner
  \/ GetInfoReply
  \/ SyncEvent
  \/ WfpLoop
  \/ WfpPoll

SpecChain == InitChain /\ [][NextChain]_vars

(***************************************************************************)
(* The engine beside a daemon whose sockets fail and whose payloads are    *)
(* refused, with no shutdown request.                                      *)
(***************************************************************************)
InitFault == profile = "fault" /\ InitEngine /\ raw = << >> /\ msg = no_message

NextFault ==
  \/ DaemonPublish
  \/ RpcFault
  \/ EngineRun
  \/ SyncLoop
  \/ SyncInner
  \/ GetInfoReply
  \/ OfflineWait
  \/ CaughtUpWait
  \/ SyncEvent
  \/ WfpLoop
  \/ WfpPoll
  \/ TxpoolEnter
  \/ PoolReply
  \/ TxpoolLoop
  \/ TxpoolEvent
  \/ TxpoolExit

SpecFault == InitFault /\ [][NextFault]_vars

(***************************************************************************)
(* The sync view beside a silent daemon, the falling text followed tick by *)
(* tick.                                                                   *)
(***************************************************************************)
InitTick == profile = "tick" /\ InitEngine /\ raw = << >> /\ msg = no_message

NextTick ==
  \/ EngineRun
  \/ SyncLoop
  \/ SyncInner
  \/ GetInfoReply
  \/ WfpLoop
  \/ WfpPoll

SpecTick == InitTick /\ [][NextTick]_vars

(***************************************************************************)
(* The same under load: a computation or a poll may take 10 ms more than a *)
(* fall.                                                                   *)
(***************************************************************************)
InitLag == profile = "lag" /\ InitEngine /\ raw = << >> /\ msg = no_message

SpecLag == InitLag /\ [][NextTick]_vars

(***************************************************************************)
(* A daemon far behind that publishes a block now and then, minutes apart. *)
(***************************************************************************)
InitQuiet == profile = "quiet" /\ InitEngine /\ raw = << >> /\ msg = no_message

SpecQuiet == InitQuiet /\ [][NextChain]_vars

(***************************************************************************)
(* pub::message alone, on every raw frame of up to MaxRawLen bytes.        *)
(***************************************************************************)
RawBytes == { Byte(COLON), Byte(97), Byte(98) }

InitPub ==
  /\ profile = "pub"
  /\ InitEngine
  /\ raw \in SeqsOf(RawBytes, 0, MaxRawLen)
  /\ msg = no_message

\* message::message(byte_slice&& raw)
Split ==
  /\ profile = "pub"
  /\ ~msg.made
  /\ msg' = [made |-> TRUE] @@ message(raw)
  /\ UNCHANGED << profile, running, exit_pipe, sig, clock, jumps, sub_queue, pubs,
                  rpc_req, state, pc, sync, tx, wfp, event, raw, hist >>

NextPub == Split

SpecPub == InitPub /\ [][NextPub]_vars

(***************************************************************************)
(* Properties.                                                             *)
(***************************************************************************)
\* A step of the engine's thread, as opposed to one of the daemon or of the
\* signal handler.
ThreadStep ==
  << pc, wfp, event, state, sync, tx, clock, rpc_req >>' #
  << pc, wfp, event, state, sync, tx, clock, rpc_req >>

\* The frame wait_for_pub makes up after the silence timeout.
Synthetic == [status |-> "ok", topic |-> << >>, contents |-> << >>]

\* Where wait_for_pub returns to.
Caller == IF wfp.caller = "sync" THEN "sync_event" ELSE "txpool_event"

\* What C1 asks of one step.
C1_Step ==
  /\ (pc = "wfp_loop" /\ ~running /\ ThreadStep)
       => (pc' = Caller /\ event' = Failed("eterm") /\ UNCHANGED << state, sub_queue, clock >>)
  /\ (pc = "wfp_poll" /\ ~running /\ ThreadStep)
       => \/ pc' = Caller /\ event'.status = "ok" /\ sub_queue # << >>
                /\ event' = Received(Head(sub_queue))
          \/ pc' = "wfp_loop" /\ UNCHANGED << state, sub_queue, event >>
  /\ (pc = "sync_event" /\ event.status = "eterm" /\ ThreadStep)
       => (pc' = "txpool_enter" /\ UNCHANGED << state, rpc_req >>)
  /\ (pc = "txpool_event" /\ event.status = "eterm" /\ ThreadStep)
       => (pc' = "run" /\ UNCHANGED << state, rpc_req >>)
  /\ (pc = "run" /\ ~running /\ ThreadStep) => pc' = "done"
  /\ (event'.status = "eterm" /\ event' # event) => ~running

\* C1: once the running flag is false, wait_for_pub starts no further loop
\* iteration: at its loop test it returns the terminated error; a poll that
\* is pending ends either with the frame it received being returned or at
\* the loop test.  Both views return on the terminated error (engine::run
\* passes from the sync view through display_txpool), only the false flag
\* makes wait_for_pub return that error, and the loop of engine::run exits
\* at its next test.
C1_Theorem == [][C1_Step]_vars

\* wait_for_pub has returned the terminated error to a view after the wake.
C1_Witness == pc = "txpool_event" /\ event.status = "eterm" /\ ~running /\ pubs > 0

\* What C2 asks of one step.
C2_Step ==
  /\ (pc = "wfp_loop" /\ running /\ no_pubs_timeout <= clock - wfp.start /\ ThreadStep)
       => (pc' = Caller /\ event' = Synthetic)
  /\ (event' = Synthetic /\ event # Synthetic)
       => /\ pc = "wfp_loop"
          /\ pc' = Caller
          /\ no_pubs_timeout <= clock - wfp.start
          /\ UNCHANGED << sub_queue, clock >>

\* C2: in wait_for_pub, when at the top of a loop iteration the engine runs
\* and at least no_pubs_timeout has passed since the call began, the
\* synthetic empty frame is returned; the synthetic frame is returned from
\* nowhere else, never before no_pubs_timeout has passed since the call
\* began, and never together with the receipt of a frame.
C2_Theorem == [][C2_Step]_vars

\* The synthetic frame has been returned to the steady view.
C2_Witness == pc = "txpool_event" /\ event = Synthetic

\* The header a view shows after the no-pub timeout.
Disconnected == << "", "disconnected" >>

\* What C3 says of a view's steps.
C3_Views ==
  /\ (pc = "txpool_event" /\ event = Synthetic /\ ThreadStep)
       => (pc' = "txpool_exit" /\ hist'.recheck = "steady")
  /\ (pc = "txpool_exit" /\ ThreadStep) => pc' = "run"
  /\ (pc = "run" /\ running /\ ThreadStep)
       => (pc' = "sync_loop" /\ sync'.header = Disconnected /\ sync'.target_height = 0)
  /\ (pc = "sync_event" /\ event = Synthetic /\ ThreadStep)
       => /\ pc' = "sync_loop"
          /\ sync'.target_height = 0
          /\ sync'.header = Disconnected
          /\ hist'.recheck = "syncing"
  /\ (hist.recheck # "none" /\ event' # event) => event'.status # "ok"

\* A request is sent to the daemon.
Requests == rpc_req' # rpc_req /\ rpc_req' # "none"

\* C3: after the synthetic empty frame the steady view is left and the sync
\* view entered under the 'disconnected' header, the sync view unsets its
\* target and shows the 'disconnected' header, no frame is handed to a view
\* before a request is sent, and the next request sent is get_info.
C3_Original ==
  [][C3_Views /\ ((hist.recheck # "none" /\ Requests) => rpc_req' = "get_info")]_vars

\* The steady view is about to dispatch a minimal-chain frame that reads.
MinimalDue ==
  /\ pc = "txpool_event"
  /\ event.status = "ok"
  /\ matches(event.topic, minimal_chain_topic)
  /\ reads_minimal_chain(json_value(event.contents))
  /\ json_value(event.contents).obj.ids # << >>

\* ... and its first_height is below the stored daemon_height.
ReorgDue == MinimalDue /\ json_value(event.contents).obj.first_height < state.daemon_height

\* What C4 asks of one step.
C4_Step ==
  /\ (ReorgDue /\ ThreadStep)
       => /\ pc' = "txpool_exit"
          /\ state'.last_block_id = state.last_block_id
          /\ state'.daemon_height = json_value(event.contents).obj.first_height
          /\ tx' = tx
          /\ hist'.warnings = hist.warnings
          /\ UNCHANGED << rpc_req, clock >>
  /\ (pc = "txpool_exit" /\ ThreadStep)
       => /\ pc' = "run"
          /\ state'.last_block_id = state.last_block_id
          /\ hist'.warnings = hist.warnings
          /\ UNCHANGED << rpc_req, clock >>
  /\ (pc = "run" /\ ThreadStep) => pc' = (IF running THEN "sync_loop" ELSE "done")

\* C4: in the steady view a minimal-chain frame whose first_height is below
\* the stored daemon_height ends the view at once: dispatching it leaves
\* last_block_id, the mempool carousel and the other locals as they are,
\* sends no request and shows no overlay; the view then returns, and the
\* next view engine::run enters is the sync view.
C4_Theorem == [][C4_Step]_vars

\* A rewound chain has ended the steady view, whose carousel held entries.
C4_Witness ==
  /\ pc = "txpool_exit"
  /\ hist.recheck = "none"
  /\ running
  /\ state.daemon_height = 1
  /\ tx.txpool # << >>

\* The minimal-chain frame about to be dispatched announces one block and
\* is not below the stored height.
BlockDue ==
  /\ MinimalDue
  /\ Len(json_value(event.contents).obj.ids) = 1
  /\ ~(json_value(event.contents).obj.first_height < state.daemon_height)

\* The steady view is about to dispatch a full-chain frame that reads.
FullDue ==
  /\ pc = "txpool_event"
  /\ event.status = "ok"
  /\ matches(event.topic, full_chain_topic)
  /\ reads_array(json_value(event.contents))
  /\ json_value(event.contents).arr # << >>

DuePrev ==
  IF FullDue THEN Last(json_value(event.contents).arr).prev_id
  ELSE json_value(event.contents).obj.first_prev_id

DueCount == Len(Last(json_value(event.contents).arr).tx_hashes)

DueId == json_value(event.contents).obj.ids[1]

\* The overlay is put up in this step, once, with this id and this count.
Shown(id, count) ==
  /\ Len(hist'.warnings) = Len(hist.warnings) + 1
  /\ SubSeq(hist'.warnings, 1, Len(hist.warnings)) = hist.warnings
  /\ Last(hist'.warnings).id = id
  /\ Last(hist'.warnings).tx_count = count

\* The one-id minimal frames and the full frames this view has dispatched
\* for the parent p.
MinimalsOf(p) == { m \in hist.minimals : m.prev = p /\ Len(m.ids) = 1 }

FullsOf(p) == { f \in hist.fulls : f.prev = p }

\* What C5 asks of one step.
C5_OriginalStep ==
  /\ (FullDue /\ ThreadStep /\ MinimalsOf(DuePrev) # {} /\ FullsOf(DuePrev) = {})
       => \E m \in MinimalsOf(DuePrev) : Shown(m.ids[1], DueCount)
  /\ (BlockDue /\ ThreadStep /\ FullsOf(DuePrev) # {} /\ MinimalsOf(DuePrev) = {})
       => \/ \E f \in FullsOf(DuePrev) : Shown(DueId, f.count)
          \/ pc' = "pool" /\ tx'.ret = "gap"

LastChain == Last(hist.chain_log)

\* What the amended C5 asks of one step.
C5_Step ==
  /\ (/\ FullDue /\ ThreadStep
      /\ hist.chain_log # << >> /\ LastChain.kind = "minimal"
      /\ Len(LastChain.ids) = 1 /\ LastChain.prev = DuePrev)
       => Shown(LastChain.ids[1], DueCount)
  /\ (/\ BlockDue /\ ThreadStep
      /\ hist.chain_log # << >> /\ LastChain.kind = "full" /\ LastChain.prev = DuePrev)
       => IF state.last_block_id = DuePrev
          THEN Shown(DueId, LastChain.count)
          ELSE pc' = "pool" /\ tx'.ret = "gap" /\ hist'.warnings = hist.warnings
  /\ (/\ pc = "pool" /\ tx.ret = "gap" /\ ThreadStep
      /\ Len(hist.chain_log) = 2 /\ hist.chain_log[1].kind = "full"
      /\ Len(LastChain.ids) = 1 /\ hist.chain_log[1].prev = LastChain.prev)
       => Shown(LastChain.ids[1], hist.chain_log[1].count)
  /\ (hist'.warnings # hist.warnings)
       => /\ Len(hist'.warnings) = Len(hist.warnings) + 1
          /\ (MinimalDue \/ FullDue \/ (pc = "pool" /\ tx.ret = "gap"))

C6_Original ==
  (hist.confirmed.noted /\ pc # "pool")
    => /\ Keys(tx.txpool) \cap hist.confirmed.T = {}
       /\ (hist.confirmed.before \ hist.confirmed.T) \subseteq Keys(tx.txpool)

\* C6, amended: the same when dispatching the frame does not fetch the
\* mempool again; when it does (the overlay is put up and the view's head
\* is not the frame's prev_id), the carousel is emptied for the daemon's
\* reply to fill.
C6_Theorem ==
  /\ (hist.confirmed.noted /\ ~hist.confirmed.resync)
       => /\ pc # "pool"
          /\ Keys(tx.txpool) \cap hist.confirmed.T = {}
          /\ (hist.confirmed.before \ hist.confirmed.T) \subseteq Keys(tx.txpool)
  /\ (hist.confirmed.noted /\ hist.confirmed.resync /\ pc = "pool")
       => (tx.txpool = << >> /\ rpc_req = "get_transaction_pool")

\* A full-chain frame has taken a transaction out of the carousel and left
\* another in.
C6_Witness ==
  /\ hist.confirmed.noted
  /\ ~hist.confirmed.resync
  /\ pc = "txpool_loop"
  /\ hist.confirmed.before \cap hist.confirmed.T # {}
  /\ hist.confirmed.before \ hist.confirmed.T # {}

\* The sync view is about to dispatch a minimal-chain frame that reads.
SyncBlockDue ==
  /\ pc = "sync_event"
  /\ event.status = "ok"
  /\ matches(event.topic, minimal_chain_topic)
  /\ reads_minimal_chain(json_value(event.contents))
  /\ json_value(event.contents).obj.ids # << >>

\* What C7 asks of one step.
C7_Step ==
  (SyncBlockDue /\ ThreadStep)
    => LET id == Last(json_value(event.contents).obj.ids)
           kept == IF Len(sync.chain) = max_block_hash_buffer
                   THEN SubSeq(sync.chain, 2, Len(sync.chain)) ELSE sync.chain
       IN /\ Len(sync'.chain) = Len(kept) + 1
          /\ SubSeq(sync'.chain, 1, Len(kept)) = kept
          /\ Last(sync'.chain).hash = id

\* C7: the block carousel of the sync view never holds more than
\* max_block_hash_buffer entries; a minimal-chain frame appends the last of
\* its ids, and when the carousel is full the oldest entry, and only it,
\* leaves first, the others keeping their order.
C7_Theorem == [](Len(sync.chain) <= max_block_hash_buffer) /\ [][C7_Step]_vars

\* The carousel is full and its two oldest blocks have left.
C7_Witness ==
  /\ Len(sync.chain) = max_block_hash_buffer
  /\ sync.chain[1].hash = 3
  /\ Last(sync.chain).hash = max_block_hash_buffer + 2

\* An entry's rendering is there once cached, and is that of its hash.
Rendered(e) ==
  IF e.cached THEN e.text = to_z85(e.hash) ELSE e.text = base85_empty.text

\* The entry of m with the key h.
EntryOf(m, h) == CHOOSE e \in SeqToSet(m) : e.hash = h

\* What C8 asks of one step.
C8_Step ==
  \A h \in Keys(tx.txpool) \cap Keys(tx'.txpool) :
    EntryOf(tx.txpool, h).cached
      => /\ EntryOf(tx'.txpool, h).cached
         /\ EntryOf(tx'.txpool, h).text = EntryOf(tx.txpool, h).text

\* C8: every text wait_for_pub hands to add_text for a carousel entry is the
\* encoding of that entry's hash; an entry that is cached holds the
\* encoding of its hash; and while an entry stays in the mempool carousel,
\* a step (the dispatch of a minimal-txpool frame that names its id
\* included) leaves a cached rendering as it is.
C8_Theorem ==
  /\ [](/\ \A i \in 1..Len(tx.txpool) : Rendered(tx.txpool[i])
        /\ \A i \in 1..Len(sync.chain) : Rendered(sync.chain[i])
        /\ \A i \in 1..Len(hist.seeds) :
             hist.seeds[i].text = to_z85(hist.seeds[i].hash))
  /\ [][C8_Step]_vars

\* An entry that a minimal-txpool frame named again after it was cached has
\* been handed to add_text once more, from its cache.
C8_Witness ==
  \E i \in 1..Len(hist.seeds) :
    /\ hist.seeds[i].was_cached
    /\ hist.seeds[i].hash \in hist.reinserted
    /\ hist.seeds[i].hash \in Keys(tx.txpool)

\* The offset of the first ':' of a frame that has one.
FirstColon(s) ==
  CHOOSE k \in 0..(Len(s) - 1) :
    s[k + 1] = Byte(COLON) /\ \A j \in 1..k : s[j] # Byte(COLON)

HasColon(s) == \E i \in 1..Len(s) : s[i] = Byte(COLON)

\* C9: of a raw frame with a ':', k being the offset of the first one,
\* pub::message makes the topic raw[0..k) and the contents raw[k+1..]: the
\* topic, a ':' and the contents are the raw frame, and the topic has no ':'.
C9_Theorem ==
  (msg.made /\ HasColon(raw))
    => LET k == FirstColon(raw)
       IN /\ msg.topic = SubSeq(raw, 1, k)
          /\ msg.contents = SubSeq(raw, k + 2, Len(raw))
          /\ msg.topic \o << Byte(COLON) >> \o msg.contents = raw
          /\ ~HasColon(msg.topic)

\* A frame with two ':' and a topic before the first has been split.
C9_Witness ==
  /\ msg.made
  /\ Len(msg.topic) > 0
  /\ HasColon(msg.contents)

\* C10 as the spec states it: of a raw frame without ':' pub::message makes
\* an empty topic and empty contents.
C10_Original ==
  (msg.made /\ ~HasColon(raw)) => (msg.topic = << >> /\ msg.contents = << >>)

\* C10, amended: of a raw frame without ':' pub::message makes an empty
\* topic and the whole frame as contents; both are empty only when the raw
\* frame is.
C10_Theorem ==
  (msg.made /\ ~HasColon(raw)) => (msg.topic = << >> /\ msg.contents = raw)

\* A frame of bytes without ':' has been split.
C10_Witness == msg.made /\ ~HasColon(raw) /\ Len(raw) > 1

\* A timed poll of the subscription socket is begun.
PollBegins == pc = "wfp_loop" /\ pc' = "wfp_poll"

\* C11: in wait_for_pub, the timeout given to a poll of the subscription
\* socket never exceeds the time that remains to the next fall of the text
\* (next_fall minus the current time), whatever the slippage has been.
C11_Original == [][PollBegins => wfp'.text_delay <= state'.text.next - clock']_vars

\* C12: no request (get_info or get_transaction_pool) is sent while a
\* published frame waits unread on the subscription socket.
C12_Original == [][Requests => sub_queue = << >>]_vars

\* A draw_next call has painted in this step: next_fall has moved.
Painted == state'.text.next # state.text.next

\* C13 as the spec states it: of two consecutive draw_next calls that
\* paint, the second leaves next_fall exactly text_fall_delay (80 ms) after
\* the value the first left.
C13_Original ==
  [][(Painted /\ state.text.next # time_min)
       => state'.text.next = state.text.next + text_fall_delay]_vars

\* C13, amended: a draw_next call that paints leaves next_fall at the time
\* it was given plus text_fall_delay; of two consecutive such calls made by
\* wait_for_pub the second leaves next_fall at least text_fall_delay after
\* the value the first left, and exactly that when it is made at the
\* deadline.
C13_Theorem ==
  [][Painted
       => /\ pc = "wfp_loop"
          /\ state'.text.next = wfp.now + text_fall_delay
          /\ state.text.next # time_min
               => /\ state'.text.next >= state.text.next + text_fall_delay
                  /\ (wfp.slippage = 0 /\ wfp.now # wfp.start)
                       => state'.text.next = state.text.next + text_fall_delay]_vars

\* A second draw_next has painted 10 ms after the deadline the first left.
C13_Witness ==
  /\ pc = "wfp_poll"
  /\ wfp.slippage > 0
  /\ state.text.next = wfp.now + text_fall_delay
  /\ \E g \in Groups : hist.since[g] >= 2

\* C14 as the spec states it: text_size (40) draw_next calls that paint,
\* after add_text has seeded a group, bring the group's count to text_size.
C14_Original ==
  \A g \in Groups : hist.since[g] = text_size => state.text.count[g] = text_size

\* C14, amended: after add_text has seeded a group, text_size + 1 (41)
\* draw_next calls that paint bring the group's count to text_size, the
\* first taking it from max_u8 to 0, and no fewer do; the next draw_next
\* with the group as the active one returns false, so that the group is
\* seeded again.
C14_Theorem ==
  /\ [](\A g \in Groups :
          (hist.since[g] >= 1 /\ hist.since[g] <= text_size + 1)
            => state.text.count[g] = hist.since[g] - 1)
  /\ [][\A g \in Groups :
          (/\ Painted
           /\ state.text.offset = g
           /\ hist.since[g] = text_size + 1)
            => /\ hist'.seeds # << >>
               /\ hist'.since[g] = 1
               /\ state'.text.count[g] = 0]_vars

\* A seeded group is the active one after 41 draws, its count at text_size.
C14_Witness ==
  \E g \in Groups :
    /\ hist.since[g] = text_size + 1
    /\ state.text.count[g] = text_size
    /\ state.text.offset = g

\* wait_for_pub is about to call draw_next: the text is due to fall.
DrawDue ==
  /\ pc = "wfp_loop"
  /\ running
  /\ ~(no_pubs_timeout <= wfp.now - wfp.start)
  /\ state.text.next <= wfp.now
  /\ ThreadStep

\* What C15 asks of one step: the add_text calls of an iteration are the
\* draw_next calls that returned false.
C15_Step ==
  /\ DrawDue =>
       LET k == Len(hist'.seeds)
           off == state.text.offset
           Seeded(g) == \E i \in 0..(k - 1) : g = (off + i) % group_count
       IN /\ k <= group_count
          /\ \A i \in 0..(k - 1) :
               state.text.count[(off + i) % group_count] \in { text_size, max_u8 - 1 }
          /\ k < group_count
               => state.text.count[(off + k) % group_count] \notin { text_size, max_u8 - 1 }
          /\ \A g \in Groups :
               state'.text.count[g] =
                 IF Seeded(g) THEN 0 ELSE (state.text.count[g] + 1) % (max_u8 + 1)
          /\ state'.text.offset = (off + k) % group_count
          /\ state'.text.next = wfp.now + text_fall_delay
  /\ (~DrawDue) => state'.text = state.text

\* C15: draw_next returns false, and then changes no group's count and not
\* next_fall, exactly when the count of the active group (the group at
\* offset) is text_size (40) or max_u8 - 1 (254); in every other case it
\* adds one to every group's count modulo 256, sets next_fall to now +
\* text_fall_delay and returns true.
C15_Theorem == [][C15_Step]_vars

\* draw_next has returned false for a group that was fully shown, which
\* add_text then seeded a second time: every other group has been seeded
\* since that group's first seeding.
C15_Witness ==
  /\ hist.seeds # << >>
  /\ \E g \in Groups :
       /\ hist.since[g] = 1
       /\ \A h \in Groups \ { g } : hist.since[h] > 1 /\ hist.since[h] <= text_size - 3
       /\ \E h \in Groups : hist.since[h] = text_size - 3

(***************************************************************************)
(* Transport errors.                                                       *)
(***************************************************************************)
\* The engine handles the result of a receive or of an invoke that ended
\* with an error other than the terminated one.
TransportFails ==
  /\ pc' # pc
  /\ \/ pc \in { "sync_event", "txpool_event" } /\ event.status = "error"
     \/ pc \in { "get_info", "pool" } /\ rpc_req = "failed"

\* C16 as stated: a transport error other than the terminated one makes the
\* engine abandon the current view and re-enter the sync view; the engine
\* keeps running.
C16_Original == [][TransportFails => pc' \in { "run", "sync_loop" }]_vars

\* C16, amended: a transport error other than the terminated one, from the
\* subscription socket or from an RPC call, is thrown as a std::system_error
\* out of the current view and out of engine::run, which has no handler; the
\* engine enters no view afterwards.
C16_Theorem ==
  /\ [][TransportFails => pc' = "thrown" /\ hist'.thrown = "system_error"]_vars
  /\ [][pc = "thrown" => pc' = "thrown"]_vars

C16_Witness == pc = "thrown" /\ hist.thrown = "system_error" /\ rpc_req = "none"

(***************************************************************************)
(* Refused payloads.                                                       *)
(***************************************************************************)
\* The payload of frame e cannot be read as what its topic announces.
Unreadable(e) ==
  LET v == json_value(e.contents) IN
  \/ matches(e.topic, minimal_chain_topic) /\ ~reads_minimal_chain(v)
  \/ /\ pc = "txpool_event"
     /\ matches(e.topic, full_chain_topic) \/ matches(e.topic, minimal_txpool_topic)
     /\ ~reads_array(v)

\* The payload of frame e is read and carries no ids, or no blocks.
Empty(e) ==
  LET v == json_value(e.contents) IN
  \/ matches(e.topic, minimal_chain_topic) /\ reads_minimal_chain(v) /\ v.obj.ids = << >>
  \/ /\ pc = "txpool_event"
     /\ matches(e.topic, full_chain_topic)
     /\ reads_array(v)
     /\ v.arr = << >>

\* A view dispatches a received frame.
Dispatches ==
  /\ pc \in { "sync_event", "txpool_event" }
  /\ event.status = "ok"
  /\ pc' # pc

\* C17 as stated: a payload on a recognised topic that is malformed JSON,
\* lacks a required field, or carries no ids or no blocks is fatal only for
\* the current view: control returns to the outer selector in engine::run,
\* which goes on selecting views.
C17_Original == [][Dispatches /\ (Unreadable(event) \/ Empty(event)) => pc' = "run"]_vars

\* C17, amended: such a payload is fatal for the engine: the view throws (a
\* wire error for malformed JSON or a missing field, a std::runtime_error
\* for no ids or no blocks) out of engine::run, which has no handler and
\* selects no view afterwards.
C17_Theorem ==
  /\ [][Dispatches /\ Unreadable(event) =>
          pc' = "thrown" /\ hist'.thrown = "wire_error"]_vars
  /\ [][Dispatches /\ Empty(event) =>
          pc' = "thrown" /\ hist'.thrown = "runtime_error"]_vars
  /\ [][hist.thrown \in { "wire_error", "runtime_error" } => UNCHANGED pc]_vars

C17_Witness == pc = "thrown" /\ hist.thrown = "wire_error" /\ state.subs # { minimal_chain_topic }

(***************************************************************************)
(* Subscriptions outside the steady view.                                  *)
(***************************************************************************)
\* Control is in engine::run or in display_sync_progress, no exception thrown.
OutsideSteady ==
  \/ pc \in { "run", "done", "sync_loop", "sync_inner", "get_info", "offline",
              "caught_up", "sync_event", "txpool_enter" }
  \/ pc \in { "wfp_loop", "wfp_poll" } /\ wfp.caller = "sync"

\* C18 as stated: on every exit from the steady view (reorg, silence timeout,
\* termination, or error) the full-chain and minimal-txpool topics are
\* unsubscribed before control leaves display_txpool, so that outside the
\* steady view the subscription set is exactly the minimal-chain topic.
C18_Original == OutsideSteady => state.subs = { minimal_chain_topic }

(***************************************************************************)
(* The RPC client after get_info.                                          *)
(***************************************************************************)
\* Lines 313-331: a reply that reports a connection has been taken in.
ConnectedReply == pc = "get_info" /\ pc' = "sync_inner"

\* C19 as stated: after a get_info reply that reports at least one
\* connection, the RPC client is closed whenever the daemon is within
\* big_sync_interval blocks of its target, every reply whose height is equal
\* to or greater than target_height included; it stays open only when the
\* daemon is more than big_sync_interval blocks behind.
C19_Original ==
  [][ConnectedReply =>
       (state'.rpc <=> sync'.target_height - state'.daemon_height > big_sync_interval)]_vars

(***************************************************************************)
(* The caught-up daemon.                                                   *)
(***************************************************************************)
\* The target is known and reached.
Reached(sy, st) == sy.target_height # 0 /\ sy.target_height <= st.daemon_height

\* What C20 asks of one step: after the reply the daemon is not asked again;
\* the next step of the view sets the progress and waits for no frame; the
\* step after it takes 3 s, or none when the wake pipe is readable, and goes
\* on to display_txpool; no frame is received on the way.
C20_Step ==
  /\ ConnectedReply /\ Reached(sync', state') => ~AsksAgain(sync', clock')
  /\ pc = "sync_inner" /\ pc' # pc /\ Reached(sync, state) /\ ~AsksAgain(sync, clock) =>
       /\ pc' = "caught_up"
       /\ sync'.progress = << state.daemon_height, sync.target_height >>
       /\ UNCHANGED << clock, sub_queue, event, wfp >>
  /\ pc = "caught_up" /\ pc' # pc =>
       /\ pc' = "txpool_enter"
       /\ clock' - clock = (IF exit_pipe > 0 THEN 0 ELSE 3000)
       /\ UNCHANGED << sub_queue, event, wfp >>

\* C20: when a get_info reply reports at least one connection and a non-zero
\* target_height that is at most height, the sync view shows the final
\* progress, waits 3 s (or until the wake) and hands over to the steady view
\* without waiting for a pub frame.
C20_Theorem == [][C20_Step]_vars

C20_Witness ==
  /\ pc = "txpool_enter"
  /\ clock = caught_up_delay
  /\ sub_queue # << >>
  /\ running

(***************************************************************************)
(* The new-block overlay.                                                  *)
(***************************************************************************)
\* show_system_warning line 278 has waited its time out.
OverlayShown == pc = "overlay" /\ pc' # pc /\ clock' > clock

\* C21: while the new-block overlay is displayed for block_display_time the
\* falling text keeps advancing: draw_next is called at its frame deadlines,
\* so at the end of the display the deadline lies less than one
\* text_fall_delay in the past.
C21_Original == [][OverlayShown => clock' < state'.text.next + text_fall_delay]_vars

\* show_system_warning line 272: an overlay is put on the screen.
WarningShown == Len(hist'.warnings) > Len(hist.warnings)

\* sync_mempool called by show_system_warning has returned.
WarningSynced == pc = "pool" /\ tx.ret = "warning" /\ pc' = "overlay"

\* C22 as stated: when the overlay is shown for a block whose id differs from
\* the id the previous overlay showed (for the first overlay, from the head
\* known on entering the steady view), the mempool is resynchronised with
\* get_transaction_pool before the display timer starts; afterwards the
\* remembered displayed head equals last_block_id.
C22_Original ==
  [][WarningShown /\ state'.last_block_id # tx.current_head =>
       pc' = "pool" /\ rpc_req' = "get_transaction_pool"]_vars

\* What the amended C22 asks of one step.
C22_Step ==
  /\ WarningShown =>
       IF tx.current_head # tx'.full_block_prev
       THEN /\ pc' = "pool"
            /\ rpc_req' = "get_transaction_pool"
            /\ tx'.ret = "warning"
            /\ tx'.current_head = tx.current_head
       ELSE /\ pc' = "overlay"
            /\ rpc_req' = "none"
  /\ WarningSynced => tx'.current_head = state'.last_block_id
  /\ pc' = "overlay" => tx'.current_head = state'.last_block_id

\* C22, amended: when the overlay is shown for a block whose parent (the
\* prev_id of the last block of the full-chain frame) differs from the head
\* remembered from the previous overlay (for the first overlay, from the head
\* known on entering the steady view), get_transaction_pool is requested
\* before the display timer starts, and the timer starts only when the call
\* has returned; when the timer starts the remembered head equals
\* last_block_id.
C22_Theorem == [][C22_Step]_vars

C22_Witness ==
  /\ pc = "overlay"
  /\ hist.confirmed.noted
  /\ hist.confirmed.resync
  /\ tx.current_head = state.last_block_id
  /\ tx.current_head # tx.full_block_prev

(***************************************************************************)
(* The order of the seeds.                                                 *)
(***************************************************************************)
\* An iteration of wait_for_pub has seeded from the carousel.
SeededFromCarousel ==
  /\ pc = "wfp_loop"
  /\ state'.text # state.text
  /\ hist'.seeds # << >>
  /\ hist'.seeds[1].size > 0

\* The entry after position p of a carousel of n entries.
entry_after(p, n) == (p + 1) % n

\* C23: successive seeds taken from a non-empty carousel go round-robin:
\* within one wait each add_text uses the entry after the one the previous
\* add_text used, wrapping from the last entry to the first.
C23_Original ==
  [][SeededFromCarousel =>
       /\ wfp.init => hist'.seeds[1].pos = entry_after(wfp.next, hist'.seeds[1].size)
       /\ \A i \in 1..(Len(hist'.seeds) - 1) :
            hist'.seeds[i + 1].pos = entry_after(hist'.seeds[i].pos, hist'.seeds[i].size)]_vars

(***************************************************************************)
(* The wake descriptor and the waits on the subscription socket.           *)
(***************************************************************************)
\* A blocking wait on the subscription socket ends while the wake pipe is
\* readable.
WaitEndsWoken ==
  /\ pc \in { "wfp_poll", "offline" }
  /\ pc' # pc
  /\ exit_pipe > 0

\* C24: every blocking wait on the subscription socket, the timed poll of
\* wait_for_pub and the untimed wait of the offline daemon alike, also waits
\* on the wake descriptor: a wake signalled during the wait makes it return
\* at once, before its timeout, with the terminated error.  The timed poll is
\* looked at when no frame is there to end it.
C24_Original ==
  [][WaitEndsWoken =>
       IF pc = "offline"
       THEN pc' = "txpool_enter"
       ELSE sub_queue = << >> => clock' = clock /\ event'.status = "eterm"]_vars

(***************************************************************************)
(* The offline daemon.                                                     *)
(***************************************************************************)
\* Lines 310-311: the wait of the offline branch ends because a frame is on
\* the subscription socket.
OfflineWoken ==
  /\ pc = "offline"
  /\ pc' = "sync_inner"
  /\ sub_queue # << >>

\* C25: when the last get_info reported no connection, the first chain event
\* on the subscription socket moves the view on: the event is consumed and
\* the view proceeds to the progress display.
C25_Original ==
  [][OfflineWoken => sub_queue' = Tail(sub_queue) /\ ~AsksAgain(sync', clock')]_vars

(***************************************************************************)
(* The parent remembered from a minimal-chain frame.                       *)
(***************************************************************************)
\* Lines 391-405: the steady view takes in a minimal-chain frame that is
\* no reorg.
MinimalTaken ==
  /\ pc = "txpool_event"
  /\ event.status = "ok"
  /\ matches(event.topic, minimal_chain_topic)
  /\ pc' \in { "txpool_loop", "pool", "overlay" }

\* C26: in the steady view, when a minimal-chain frame carries n > 1 ids the
\* recorded minimal_block_prev is the penultimate id, read from within the
\* bounds of ids; when n = 1 it is first_prev_id.
C26_Original ==
  [][MinimalTaken =>
       LET minimal_block == json_value(event.contents).obj
           n == Len(minimal_block.ids)
       IN tx'.minimal_block_prev =
            IF n = 1 THEN minimal_block.first_prev_id ELSE minimal_block.ids[n - 1]]_vars

(***************************************************************************)
(* Seeds when the carousel is empty.                                       *)
(***************************************************************************)
\* An iteration of wait_for_pub has seeded with the carousel empty.
SeededFromNothing ==
  /\ pc = "wfp_loop"
  /\ state'.text # state.text
  /\ hist'.seeds # << >>
  /\ Hashes = << >>

\* What C27 asks of one step: each such seed is the encoding of
\* last_block_id, which is an id the daemon has reported and not the
\* value-initialised hash of the motrix constructor (0 in the model, where
\* the daemon reports the ids of BlockIds).
C27_Step ==
  SeededFromNothing =>
    /\ \A i \in 1..Len(hist'.seeds) :
         /\ hist'.seeds[i].size = 0
         /\ hist'.seeds[i].hash = state.last_block_id
         /\ hist'.seeds[i].text = to_z85(state.last_block_id)
    /\ state.last_block_id \in BlockIds
    /\ state.last_block_id # motrix_init.last_block_id

\* C27: whenever wait_for_pub has to seed the falling text while the view's
\* carousel is empty, the seeded text is the base85 encoding of
\* last_block_id, and last_block_id is then a block id observed from
\* get_info or from a minimal-chain frame, never the initial all-zero value.
C27_Theorem == [][C27_Step]_vars

C27_Witness ==
  /\ pc \in { "wfp_poll", "wfp_loop", "txpool_event" }
  /\ wfp.caller = "txpool" \/ pc = "txpool_event"
  /\ hist.seeds # << >>
  /\ hist.seeds[1].size = 0
  /\ hist.seeds[1].hash = 1
  /\ hist.seeds[1].text = to_z85(1)
  /\ state.last_block_id = 1

(***************************************************************************)
(* What follows a get_info reply.                                          *)
(***************************************************************************)
\* C28: after every get_info reply that reports a connection the sync view
\* updates the progress display and then waits for a pub frame or declares
\* the daemon caught up, before it sends another get_info; this for every
\* target_height of the reply, 0 included.  The reply leaves the view where
\* the inner loop's condition is false.
C28_Original == [][ConnectedReply => ~AsksAgain(sync', clock')]_vars

(***************************************************************************)
(* After the wake.                                                         *)
(***************************************************************************)
\* A topic is subscribed that was not.
Subscribes == ~(state'.subs \subseteq state.subs)

\* C29: once the wake has been signalled the engine sends no new request
\* and subscribes to nothing before engine::run returns; when
\* display_sync_progress returns because of the wake the steady view is not
\* entered.  The engine is looked at where display_sync_progress has
\* returned.
C29_Original ==
  [][exit_pipe > 0 /\ pc = "txpool_enter" => ~Requests /\ ~Subscribes]_vars

(***************************************************************************)
(* The range of the counts.                                                *)
(***************************************************************************)
\* The counts that show a character, and those that count down to the wrap.
VisibleRange == 0..text_size

ReservedRange == (max_u8 - text_size)..max_u8

\* C30: add_text being called only right after draw_next returned false,
\* every group's count is in 0..text_size or in the reserved range
\* max_u8 - 40..max_u8 in every reachable state: no count is ever in
\* 41..214, so no group wraps through the visible range a second time
\* without being reseeded.
C30_Theorem ==
  \A g \in Groups : state.text.count[g] \in VisibleRange \cup ReservedRange

C30_Witness ==
  /\ \A g \in Groups : hist.since[g] >= 1
  /\ \E g \in Groups : state.text.count[g] = text_size /\ hist.since[g] = text_size + 1
  /\ \E g \in Groups : state.text.count[g] = text_size - 5

(***************************************************************************)
(* The seed loop.                                                          *)
(***************************************************************************)
\* C31: the seed loop of wait_for_pub always ends: from the staggered
\* initial counts on, a draw_next that returns false is followed by one
\* add_text and then by a draw_next that returns true, so no iteration seeds
\* two groups and, where the active group is due, the group after it is not.
C31_Theorem ==
  /\ Len(hist.seeds) <= 1
  /\ ~draw_ready(state.text) => draw_ready(add_text(state.text, to_z85(0)))

C31_Witness ==
  /\ ~draw_ready(state.text)
  /\ state.text.count[state.text.offset] = text_size
  /\ \A g \in Groups : hist.since[g] >= 1

(***************************************************************************)
(* Gaps.                                                                   *)
(***************************************************************************)
\* The payload of the minimal-chain frame being dispatched.
minimal_event == json_value(event.contents).obj

\* Line 400: the frame does not follow the block last seen.
Gap == state.last_block_id # minimal_event.first_prev_id

\* Lines 397-401: what every such frame leaves behind.
HeadMoved ==
  /\ state'.last_block_id = Last(minimal_event.ids)
  /\ state'.daemon_height = minimal_event.first_height

\* C32 as stated: in the steady view a minimal-chain frame that is no reorg
\* triggers a mempool resync exactly when the stored last_block_id differs
\* from the frame's first_prev_id; in both cases last_block_id becomes the
\* frame's last id and daemon_height its first_height.
C32_Original ==
  [][MinimalTaken => HeadMoved /\ (pc' = "pool" <=> Gap)]_vars

\* What the amended C32 asks of one step.
C32_Step ==
  MinimalTaken =>
    /\ HeadMoved
    /\ Gap => pc' = "pool" /\ tx'.ret = "gap" /\ tx'.txpool = << >>
    /\ ~Gap =>
         /\ pc' = "pool" <=>
              /\ tx.full_block_prev = minimal_event.first_prev_id
              /\ tx.current_head # tx.full_block_prev
         /\ pc' = "pool" => tx'.ret = "warning" /\ tx'.txpool = << >>

\* C32, amended: such a frame triggers a mempool resync whenever the stored
\* last_block_id differs from its first_prev_id; when the two are equal the
\* mempool is resynchronised only if the frame brings up the new-block
\* overlay for a block whose parent differs from the remembered displayed
\* head; in every case last_block_id becomes the frame's last id and
\* daemon_height its first_height.
C32_Theorem == [][C32_Step]_vars

C32_Witness ==
  /\ pc = "pool"
  /\ tx.ret = "gap"
  /\ tx.txpool = << >>
  /\ hist.minimals # {}
  /\ \E m \in hist.minimals : state.last_block_id = Last(m.ids)

(***************************************************************************)
(* The reply of a daemon without connections.                              *)
(***************************************************************************)
\* Lines 304-307: the reply reports no connection.
OfflineReply == pc = "get_info" /\ pc' = "offline"

\* What C33 asks of one step.
C33_Step ==
  /\ OfflineReply =>
       /\ state' = state
       /\ sync'.target_height = sync.target_height
       /\ sync'.last_sync = sync.last_sync
       /\ sync'.chain = sync.chain
       /\ sync'.header = << "offline", "rpc_address" >>
       /\ rpc_req' = "none"
  /\ pc = "offline" =>
       /\ ~Requests
       /\ pc' # pc => sub_queue # << >> \/ exit_pipe > 0

\* C33: when a get_info reply reports no outgoing and no incoming
\* connection the sync view stores none of the reply's height, target_height
\* and top_block_hash, shows the offline header and sends no further
\* get_info until the subscription socket is readable or the wake is
\* signalled.
C33_Theorem == [][C33_Step]_vars

C33_Witness ==
  /\ pc = "offline"
  /\ sync.header = << "offline", "rpc_address" >>
  /\ sub_queue = << >>
  /\ exit_pipe = 0
  /\ state.daemon_height = 0
  /\ state.last_block_id = 0
  /\ sync.target_height = 0

(***************************************************************************)
(* Frames no view handles.                                                 *)
(***************************************************************************)
\* The topics the view at pc dispatches on.
HandledTopics ==
  IF pc = "sync_event" THEN { minimal_chain_topic }
  ELSE { minimal_chain_topic, full_chain_topic, minimal_txpool_topic }

\* A view dispatches a frame whose topic is not empty and is none of its own.
Unhandled ==
  /\ Dispatches
  /\ event.topic # << >>
  /\ event.topic \notin HandledTopics

\* What C34 asks of one step.
C34_Step ==
  Unhandled =>
    /\ state' = state
    /\ sync' = sync
    /\ tx' = tx
    /\ hist'.warnings = hist.warnings
    /\ rpc_req' = rpc_req
    /\ pc' = IF pc = "sync_event" THEN "sync_loop" ELSE "txpool_loop"

\* C34: a received frame whose topic is none of those the current view
\* handles (full-chain and minimal-txpool frames in the sync view, any frame
\* with an unknown topic that is not empty) leaves daemon_height,
\* target_height, last_block_id, both carousels, the overlay bookkeeping and
\* the subscriptions unchanged, and the view goes on with its loop.
C34_Theorem == [][C34_Step]_vars

\* The sync view has been handed a full-chain frame left over from the
\* steady view, with a block and a target it must keep.
C34_Witness ==
  /\ pc = "sync_event"
  /\ event.status = "ok"
  /\ event.topic = full_chain_topic
  /\ state.subs = { minimal_chain_topic }
  /\ sync.target_height > 0
  /\ state.last_block_id # 0

(***************************************************************************)
(* Frames without ids, without blocks.                                     *)
(***************************************************************************)
\* What C35 asks of one step.
C35_Step ==
  Dispatches /\ Empty(event) =>
    /\ hist'.thrown = "runtime_error"
    /\ state' = state
    /\ sync' = sync
    /\ tx' = tx
    /\ hist'.warnings = hist.warnings
    /\ rpc_req' = rpc_req

\* C35: a minimal-chain frame with no ids and a full-chain frame with no
\* blocks are rejected with an error before any state is touched:
\* daemon_height, last_block_id, the carousels and the overlay bookkeeping
\* keep the values they had before the frame.
C35_Theorem == [][C35_Step]_vars

\* A full-chain frame without blocks has been rejected; the transaction
\* that had entered the pool is still there.
C35_Witness ==
  /\ hist.thrown = "runtime_error"
  /\ state.subs # { minimal_chain_topic }
  /\ tx.txpool # << >>
  /\ state.last_block_id = 1

(***************************************************************************)
(* The RPC client and the mempool in the steady view.                      *)
(***************************************************************************)
\* wait_for_pub is running for display_txpool.
SteadyWaits == pc \in { "wfp_loop", "wfp_poll" } /\ wfp.caller = "txpool"

\* The tx hashes of a get_transaction_pool reply, as a set.
reply_hashes(pool) == { pool.transactions[i].tx_hash : i \in 1..Len(pool.transactions) }

\* sync_mempool returns to display_txpool or show_system_warning; with the
\* wake pipe not readable the call has succeeded.
PoolSynced == pc = "pool" /\ pc' \notin { "pool", "thrown" } /\ exit_pipe = 0

\* What C36 asks of one step.
C36_Step ==
  PoolSynced =>
    /\ ~state'.rpc
    /\ \E pool \in PoolReplies :
         /\ Keys(tx'.txpool) = reply_hashes(pool)
         /\ Len(tx'.txpool) = Cardinality(reply_hashes(pool))
    /\ \A i \in 1..Len(tx'.txpool) : tx'.txpool[i] = [hash |-> tx'.txpool[i].hash] @@ base85_empty

\* C36: whenever the steady view waits for a pub frame the RPC client is
\* closed; every successful sync_mempool leaves the mempool carousel equal to
\* the set of the tx hashes of the reply, none with a cached rendering, and
\* the RPC client closed.
C36_Theorem ==
  /\ [](SteadyWaits => ~state.rpc)
  /\ [][C36_Step]_vars

\* The steady view waits, a block seen, with the two transactions of a reply
\* and the client closed.
C36_Witness ==
  /\ SteadyWaits
  /\ ~state.rpc
  /\ Keys(tx.txpool) = { 11, 12 }
  /\ hist.minimals # {}

(***************************************************************************)
(* C37: the wake is ordered and sticky.                                    *)
(***************************************************************************)
\* The wake descriptor is readable.
Readable == exit_pipe > 0

\* The running flag is set back to true.
Restarted == ~running /\ running'

\* A byte is taken out of the wake pipe.
Drained == exit_pipe' < exit_pipe

\* C37: in every interleaving of the handler with the engine the running
\* flag is false whenever the wake descriptor is readable; the flag is never
\* set back to true and no byte is ever read from the pipe, so the descriptor
\* stays readable once it is.
C37_Theorem ==
  /\ [](Readable => ~running)
  /\ [][~Restarted /\ ~Drained]_vars

\* The engine has left its loops after the handler ran to its end: the flag
\* is false and the byte is still in the pipe.
C37_Witness ==
  /\ sig = "done"
  /\ Readable
  /\ ~running
  /\ pc = "done"

(***************************************************************************)
(* The slots of falling_text: where each column of characters is painted.  *)
(***************************************************************************)
color_count == 2
screen_fill_percent == 60
int_max == 2147483647
int_min == -int_max - 1

\* How many draws a behaviour of the slots is followed for.
MaxDraws == 12

\* The terminal sizes getmaxyx reports: slot counts of 8, 9 and 10.
SlotCols == { 14, 15, 17 }
SlotLines == { 24, 50 }

\* What a build makes of the signed overflow of ++loc.y and ++loc.old_y.
Builds == { "wraps", "traps" }

\* percent{screen_fill_percent}.compute_center(cols).characters
compute_center_characters(value, total) ==
  ((IF value < 100 THEN value ELSE 100) * total) \div 100

\* locations_.size()
locations_size(cols) ==
  LET chars == compute_center_characters(screen_fill_percent, cols)
  IN IF group_count < chars THEN chars ELSE group_count

\* falling_text_location()
falling_text_location ==
  [x |-> int_max, y |-> int_max, old_x |-> int_max, old_y |-> int_max]

\* The falling_text a terminal of the given size gets from the constructor.
falling_text_slots(lines, cols, build) ==
  [count |-> falling_text_init.count,
   text |-> falling_text_init.text,
   offset |-> falling_text_init.offset,
   next |-> falling_text_init.next,
   locations |-> [i \in 0..(locations_size(cols) - 1) |-> falling_text_location],
   lines |-> lines,
   cols |-> cols,
   build |-> build,
   aborted |-> FALSE]

\* The slots bound to a group.
SlotsOf(ft, g) == { i \in DOMAIN ft.locations : i % group_count = g }

\* The upper end of select_line.
select_line_max(lines) == IF text_size <= lines THEN lines - text_size ELSE lines

\* The positions the two distributions are taken to produce: their ends.
Positions(ft) ==
  { [x |-> 0, y |-> -1], [x |-> ft.cols, y |-> select_line_max(ft.lines)] }

\* current.y - group.text.size(), computed in std::size_t and stored in an int.
old_y_of(y) ==
  IF y < int_min + text_size
  THEN int_max - ((text_size - 1) - (y - int_min))
  ELSE y - text_size

\* add_text(src), the random positions being pos.
add_text_slots(ft, src, pos) ==
  [add_text(ft, src) EXCEPT
     !.locations = [i \in DOMAIN ft.locations |->
                      IF i % group_count # ft.offset
                      THEN ft.locations[i]
                      ELSE [x |-> pos[i].x, y |-> pos[i].y,
                            old_x |-> ft.locations[i].x,
                            old_y |-> old_y_of(ft.locations[i].y)]]]

\* The slots the second pass of draw_next visits.
color_range(ft) == Cardinality(DOMAIN ft.locations) \div color_count
second_pass(ft) == 0..(color_range(ft) * color_count - 1)

\* ++v of an int in a build where the overflow wraps.
increment(v) == IF v = int_max THEN int_min ELSE v + 1

\* Whether the second pass overflows an int.
overflows(ft) ==
  \E i \in second_pass(ft) :
    ft.locations[i].y = int_max \/ ft.locations[i].old_y = int_max

\* draw_next(now) when it paints, the slots included.
draw_slots(ft, now) ==
  [draw_step(ft, now) EXCEPT
     !.locations = [i \in DOMAIN ft.locations |->
                      IF i \in second_pass(ft)
                      THEN [ft.locations[i] EXCEPT !.y = increment(@),
                                                   !.old_y = increment(@)]
                      ELSE ft.locations[i]]]

slots_rest == << profile, running, exit_pipe, sig, jumps, sub_queue, pubs,
                 rpc_req, pc, sync, tx, wfp, event, raw, msg, hist >>

\* The engine seeds the active group when draw_next has returned false.
SlotsAdd ==
  /\ profile = "slots"
  /\ ~state.text.aborted
  /\ ~draw_ready(state.text)
  /\ \E src \in { to_z85(1), to_z85(2) } :
       \E pos \in [SlotsOf(state.text, state.text.offset) -> Positions(state.text)] :
         state' = [state EXCEPT !.text = add_text_slots(state.text, src, pos)]
  /\ UNCHANGED << clock, slots_rest >>

\* draw_next(now) paints; the signed overflow of a slot never given a position
\* either wraps or ends the program, as the build has it.
SlotsDraw ==
  /\ profile = "slots"
  /\ ~state.text.aborted
  /\ draw_ready(state.text)
  /\ clock < MaxDraws * text_fall_delay
  /\ clock' = clock + text_fall_delay
  /\ IF overflows(state.text) /\ state.text.build = "traps"
     THEN state' = [state EXCEPT !.text.aborted = TRUE]
     ELSE state' = [state EXCEPT !.text = draw_slots(state.text, clock)]
  /\ UNCHANGED slots_rest

InitSlots ==
  /\ profile = "slots"
  /\ running = TRUE
  /\ exit_pipe = 0
  /\ sig = "idle"
  /\ clock = 0
  /\ jumps = 0
  /\ sub_queue = << >>
  /\ pubs = 0
  /\ rpc_req = "none"
  /\ \E lines \in SlotLines, cols \in SlotCols, build \in Builds :
       state = [motrix_init EXCEPT !.text = falling_text_slots(lines, cols, build)]
  /\ pc = "run"
  /\ sync = sync_dead
  /\ tx = tx_dead
  /\ wfp = wfp_dead
  /\ event = no_event
  /\ hist = hist_init
  /\ raw = << >>
  /\ msg = no_message

NextSlots ==
  \/ SlotsAdd
  \/ SlotsDraw

SpecSlots == InitSlots /\ [][NextSlots]_vars

(***************************************************************************)
(* C38: every slot falls by one at each draw.                              *)
(***************************************************************************)
\* draw_next has painted: it returned true.
Draws == profile = "slots" /\ clock' # clock /\ ~state'.text.aborted

\* The slot has been given a position: neither of its rows is the value the
\* constructor left.
Placed(loc) == loc.y < int_max /\ loc.old_y < int_max

\* C38 as stated: each successful draw_next increments the y and prev_y of
\* every slot by exactly one, whatever the slot count; stated here of the
\* slots that have been given a position.
C38_Original ==
  [][Draws =>
       \A i \in DOMAIN state.text.locations :
         Placed(state.text.locations[i]) =>
           /\ state'.text.locations[i].y = state.text.locations[i].y + 1
           /\ state'.text.locations[i].old_y = state.text.locations[i].old_y + 1]_vars

(***************************************************************************)
(* C39: what add_text changes.                                             *)
(***************************************************************************)
\* add_text has run.
Adds == profile = "slots" /\ clock' = clock /\ state'.text # state.text

\* What add_text does to the groups, the offset and the deadline.
AddsToGroup ==
  LET ft == state.text
      nx == state'.text
  IN /\ \E src \in { to_z85(1), to_z85(2) } :
          nx.text[ft.offset] = SubSeq(src, 1, Len(src) - 1)
     /\ nx.count[ft.offset] = max_u8
     /\ nx.offset = (ft.offset + 1) % group_count
     /\ \A g \in Groups \ { ft.offset } :
          nx.text[g] = ft.text[g] /\ nx.count[g] = ft.count[g]
     /\ nx.next = ft.next

\* What add_text does to a slot of the seeded group, apart from prev_y.
Moved(old, new) ==
  /\ new.old_x = old.x
  /\ new.x \in 0..state.text.cols
  /\ new.y \in (-1)..select_line_max(state.text.lines)

\* C39 as stated: add_text copies the characters into the group at offset,
\* sets its count to max_u8, gives every slot of that group a new position
\* and records its previous one as (x, y - 40), then advances offset; the
\* other groups, the slots of the other groups and next_fall are unchanged.
C39_Original ==
  [][Adds =>
       /\ AddsToGroup
       /\ \A i \in DOMAIN state.text.locations :
            IF i % group_count = state.text.offset
            THEN /\ Moved(state.text.locations[i], state'.text.locations[i])
                 /\ state.text.locations[i].y >= int_min + text_size
                 /\ state'.text.locations[i].old_y = state.text.locations[i].y - text_size
            ELSE state'.text.locations[i] = state.text.locations[i]]_vars

(***************************************************************************)
(* C40: when the sync view asks the daemon again.                          *)
(***************************************************************************)
\* The sync view sends get_info.
Issues == pc = "sync_inner" /\ pc' = "get_info"

\* The time since the last reply that reported a connection, if there was one.
Replied == sync.last_sync # time_min
IntervalElapsed == target_sync_interval <= clock - sync.last_sync

\* The sync view dispatches a frame of the daemon.
ProcessesFrame ==
  /\ pc = "sync_event"
  /\ pc' # "sync_event"
  /\ event.status = "ok"
  /\ ~(event.topic = << >> /\ event.contents = << >>)

\* C40 as stated: while target_height is set the sync view does not send
\* get_info again before target_sync_interval has passed since the last reply
\* that reported a connection; once it has passed, get_info is sent before
\* the next frame is processed; and get_info is sent earlier only after a
\* silence timeout has unset target_height.
C40_Original ==
  /\ [][Issues /\ sync.target_height # 0 => IntervalElapsed]_vars
  /\ [][ProcessesFrame /\ sync.target_height # 0 => ~IntervalElapsed]_vars
  /\ [][Issues /\ Replied /\ ~IntervalElapsed => hist.recheck = "syncing"]_vars

====
